---- MODULE Spec2Model ----
(***************************************************************************)
(* Model of the catcher job lifecycle engine: the SQLite job store         *)
(* (internal/adapter/sqlite/repository.go), the orchestration service      *)
(* (internal/domain), the processor registry and the polling worker        *)
(* (internal/worker/worker.go).                                            *)
(*                                                                         *)
(* Strings that the code inspects character by character (URLs) are        *)
(* sequences of one-character strings; ids are the AUTOINCREMENT row ids   *)
(* 1, 2, ... so the jobs table is a sequence indexed by id.                *)
(***************************************************************************)
EXTENDS Integers, Sequences, FiniteSets, TLC

(***************************************************************************)
(* Bounds of the model                                                     *)
(***************************************************************************)
MaxArgs == 2           \* arguments in a handler's template
MaxPieces == 2         \* pieces (a character or a placeholder) in one argument of a template
MaxErrorJobs == 1      \* rows in the table when the error column is followed
MaxStoreJobs == 2      \* rows in the table when the store API is driven directly
MaxAttempts == 2       \* successful claims in a behaviour when the store API is driven directly
MaxJobs == 2           \* rows in the table when the whole system runs
MaxRetriesBound == 2   \* the --max-retries values tried are 1..MaxRetriesBound
MaxFaults == 1         \* injected events: shutdown signals, kills of the process, database errors
MaxLen == 3            \* length of the raw strings handed to Submit
MaxSubmitJobs == 1     \* rows in the table when only Submit is driven
MaxCrashJobs == 1      \* rows in the table when restarts are followed to their end
MaxProcessors == 2     \* processors registered when the registry is driven directly
MaxOrderJobs == 2      \* rows in the table when the polling order is examined
MaxClock == 2          \* values time.Now() takes when the polling order is examined
MaxCalls == 3          \* calls of Repository.Create when it is driven on its own
MaxTime == 6           \* minutes on the clocks of the server and of the senders of webhooks
MaxWebJobs == 1        \* rows in the table when the webhook handler is driven
MaxFiles == 2          \* file names in the temp and target directories
MaxRuns == 2           \* isolated executions that follow each other on one target directory

(***************************************************************************)
(* Program constants                                                       *)
(***************************************************************************)
StatusPending == "pending"
StatusProcessing == "processing"
StatusCompleted == "completed"
StatusFailed == "failed"

RecoveredMarker == "recovered after crash"
NoProcessorReason == "no processor for URL"
PollLimit == 10

ErrJobNotFound == "NotFound"
ErrInvalidURL == "InvalidURL"
ErrStorage == "error"
Ok == "ok"

(***************************************************************************)
(* Job entity                                                              *)
(***************************************************************************)
NewJob(url, now) ==
    [url |-> url, status |-> StatusPending, attempts |-> 0, error |-> "",
     created_at |-> now]

CanRetryIgnoringLimit(job, maxAttempts) ==
    job.status # StatusCompleted

CanRetryOffByOne(job, maxAttempts) ==
    job.attempts <= maxAttempts /\ job.status # StatusCompleted

CanRetry(job, maxAttempts) ==
    job.attempts < maxAttempts /\ job.status # StatusCompleted

(***************************************************************************)
(* Job store: every operation is one SQL statement, i.e. one atomic        *)
(* UPDATE ... SET ... WHERE ...; <Op>Where is the set of rows the WHERE    *)
(* clause selects and <Op>Set the new value of a selected row.             *)
(***************************************************************************)
\* set[i] is the value the SET clause gives row i
Update(js, rows, set) ==
    [i \in DOMAIN js |-> IF i \in rows THEN set[i] ELSE js[i]]

NextIdInUse(js) == IF js = <<>> THEN 1 ELSE Len(js)

\* id INTEGER PRIMARY KEY AUTOINCREMENT: one more than the largest id ever
\* used; no statement of the program deletes a row, so that is the row count
NextId(js) == Len(js) + 1

Create(js, url, now) ==
    LET id == NextId(js)
    IN  [i \in 1..(IF id > Len(js) THEN id ELSE Len(js)) |->
            IF i = id THEN NewJob(url, now) ELSE js[i]]

\* a Get that reports no error when no row has the id
GetWithoutNotFound(js, id) == Ok

Get(js, id) == IF id \in DOMAIN js THEN Ok ELSE ErrJobNotFound

ClaimWhereAnyStatus(js, id) ==
    {i \in DOMAIN js : i = id}

ClaimWhere(js, id) ==
    {i \in DOMAIN js : i = id /\ js[i].status = StatusPending}

ClaimSetNoIncrement(j) ==
    [j EXCEPT !.status = StatusProcessing]

\* a claim that also rewrites the creation time
ClaimSetTouchesCreatedAt(j) ==
    [j EXCEPT !.status = StatusProcessing, !.attempts = @ + 1, !.created_at = 0]

ClaimSet(j) ==
    [j EXCEPT !.status = StatusProcessing, !.attempts = @ + 1]

Claim(js, id) ==
    Update(js, ClaimWhere(js, id), [i \in DOMAIN js |-> ClaimSet(js[i])])

ClaimResult(js, id) ==
    IF Cardinality(ClaimWhere(js, id)) = 0 THEN ErrJobNotFound ELSE Ok

CompleteWhere(js, id) == {i \in DOMAIN js : i = id}

\* a completion that also counts as an attempt
CompleteSetCountsAttempt(j) == [j EXCEPT !.status = StatusCompleted, !.attempts = @ + 1]

CompleteSet(j) == [j EXCEPT !.status = StatusCompleted]

CompleteWritesNothing(js, id) == js

Complete(js, id) ==
    Update(js, CompleteWhere(js, id), [i \in DOMAIN js |-> CompleteSet(js[i])])

FailWhere(js, id) == {i \in DOMAIN js : i = id}

FailKeepsError(js, id, reason) ==
    LET FailSet(j) == [j EXCEPT !.status = StatusFailed]
    IN  Update(js, FailWhere(js, id), [i \in DOMAIN js |-> FailSet(js[i])])

Fail(js, id, reason) ==
    LET FailSet(j) == [j EXCEPT !.status = StatusFailed, !.error = reason]
    IN  Update(js, FailWhere(js, id), [i \in DOMAIN js |-> FailSet(js[i])])

RetryWhere(js, id) == {i \in DOMAIN js : i = id}

RetryResetAttempts(js, id, reason) ==
    LET RetrySet(j) == [j EXCEPT !.status = StatusPending, !.error = reason,
                                 !.attempts = 0]
    IN  Update(js, RetryWhere(js, id), [i \in DOMAIN js |-> RetrySet(js[i])])

RetryKeepsError(js, id, reason) ==
    LET RetrySet(j) == [j EXCEPT !.status = StatusPending]
    IN  Update(js, RetryWhere(js, id), [i \in DOMAIN js |-> RetrySet(js[i])])

Retry(js, id, reason) ==
    LET RetrySet(j) == [j EXCEPT !.status = StatusPending, !.error = reason]
    IN  Update(js, RetryWhere(js, id), [i \in DOMAIN js |-> RetrySet(js[i])])

RecoverStaleWhereAll(js) ==
    {i \in DOMAIN js : js[i].status \in {StatusProcessing, StatusFailed}}

RecoverStaleWhere(js) ==
    {i \in DOMAIN js : js[i].status = StatusProcessing}

RecoverStaleSetResetAttempts(j) ==
    [j EXCEPT !.status = StatusPending, !.error = RecoveredMarker, !.attempts = 0]

RecoverStaleSet(j) ==
    [j EXCEPT !.status = StatusPending, !.error = RecoveredMarker]

\* a recovery that resets no row
RecoverStaleResetsNothing(js) == js

RecoverStale(js) ==
    Update(js, RecoverStaleWhere(js), [i \in DOMAIN js |-> RecoverStaleSet(js[i])])

RecoverStaleCount(js) == Cardinality(RecoverStaleWhere(js))

(***************************************************************************)
(* Query of the pending jobs: WHERE status = 'pending' ORDER BY created_at *)
(* ASC LIMIT limit.  created_at is time.Now() read by Create before its   *)
(* INSERT, so it need not follow the order of the ids and two rows may     *)
(* carry the same value.  The result is a slice of copies of the rows.     *)
(***************************************************************************)
RECURSIVE Ascending(_)
Ascending(S) ==
    IF S = {} THEN <<>>
    ELSE LET m == CHOOSE x \in S : \A y \in S : x <= y
         IN  <<m>> \o Ascending(S \ {m})

Take(s, n) == SubSeq(s, 1, IF Len(s) < n THEN Len(s) ELSE n)

Snapshot(js, id) ==
    [id |-> id, url |-> js[id].url, status |-> js[id].status,
     attempts |-> js[id].attempts, error |-> js[id].error,
     created_at |-> js[id].created_at]

OrderedById(js, S) == {Ascending(S)}

\* the orders in which ORDER BY created_at ASC may return the rows S: rows with
\* equal created_at come in an order that SQL leaves open
RECURSIVE OrderedByCreatedAt(_, _)
OrderedByCreatedAt(js, S) ==
    IF S = {} THEN {<<>>}
    ELSE UNION {{<<m>> \o t : t \in OrderedByCreatedAt(js, S \ {m})} :
                   m \in {x \in S : \A y \in S : js[x].created_at <= js[y].created_at}}

\* the results the query may return
FindPending(js, limit) ==
    {[k \in 1..Len(Take(s, limit)) |-> Snapshot(js, s[k])] :
        s \in OrderedByCreatedAt(js, {i \in DOMAIN js : js[i].status = StatusPending})}

(***************************************************************************)
(* net/url.ParseRequestURI as called by JobService.Submit                  *)
(* (parse with viaRequest = true), over the alphabet Chars.  The alphabet  *)
(* has no control character, no '?', '%', '@' or '[', so the steps of the  *)
(* parser that only concern those characters are not taken.                *)
(***************************************************************************)
Letters == {"a", "b"}
Digits == {"1"}
Chars == Letters \cup Digits \cup {":", "/", "*"}

HasPrefix(s, p) == Len(s) >= Len(p) /\ SubSeq(s, 1, Len(p)) = p

IndexOf(s, c) ==
    IF \E i \in 1..Len(s) : s[i] = c
    THEN CHOOSE i \in 1..Len(s) : s[i] = c /\ \A k \in 1..(i - 1) : s[k] # c
    ELSE 0

LastIndexOf(s, c) ==
    IF \E i \in 1..Len(s) : s[i] = c
    THEN CHOOSE i \in 1..Len(s) : s[i] = c /\ \A k \in (i + 1)..Len(s) : s[k] # c
    ELSE 0

\* getScheme: [err, scheme, rest]
RECURSIVE getSchemeFrom(_, _)
getSchemeFrom(rawURL, i) ==
    IF i > Len(rawURL) THEN [err |-> FALSE, scheme |-> <<>>, rest |-> rawURL]
    ELSE LET c == rawURL[i] IN
         IF c \in Letters THEN getSchemeFrom(rawURL, i + 1)
         ELSE IF c \in Digits
              THEN IF i = 1
                   THEN [err |-> FALSE, scheme |-> <<>>, rest |-> rawURL]
                   ELSE getSchemeFrom(rawURL, i + 1)
         ELSE IF c = ":"
              THEN IF i = 1
                   THEN [err |-> TRUE, scheme |-> <<>>, rest |-> <<>>]
                   ELSE [err |-> FALSE, scheme |-> SubSeq(rawURL, 1, i - 1),
                         rest |-> SubSeq(rawURL, i + 1, Len(rawURL))]
         ELSE [err |-> FALSE, scheme |-> <<>>, rest |-> rawURL]

getScheme(rawURL) == getSchemeFrom(rawURL, 1)

\* validOptionalPort: "" or ":" followed by digits only
validOptionalPort(port) ==
    \/ port = <<>>
    \/ /\ port[1] = ":"
       /\ \A k \in 2..Len(port) : port[k] \in Digits

\* parseHost for a host without brackets: the text after the last colon must be a port
parseHostOk(host) ==
    LET i == LastIndexOf(host, ":")
    IN  i # 0 => validOptionalPort(SubSeq(host, i, Len(host)))

\* parseAuthority without userinfo
parseAuthorityOk(authority) == parseHostOk(authority)

ParseRequestURI(rawURL) ==
    IF rawURL = <<>> THEN FALSE
    ELSE IF rawURL = <<"*">> THEN TRUE
    ELSE LET g == getScheme(rawURL) IN
         IF g.err THEN FALSE
         ELSE IF ~HasPrefix(g.rest, <<"/">>)
              THEN g.scheme # <<>>
         ELSE IF g.scheme # <<>> /\ HasPrefix(g.rest, <<"/", "/">>)
              THEN LET after == SubSeq(g.rest, 3, Len(g.rest))
                       i == IndexOf(after, "/")
                       authority == IF i = 0 THEN after ELSE SubSeq(after, 1, i - 1)
                   IN  parseAuthorityOk(authority)
         ELSE TRUE

(***************************************************************************)
(* Processor registry: an ordered list of processors; a processor matches  *)
(* a URL when its pattern (a literal here) occurs in the URL.              *)
(***************************************************************************)
Contains(s, p) ==
    \E i \in 1..(Len(s) - Len(p) + 1) : SubSeq(s, i, i + Len(p) - 1) = p

ProcessorMatch(p, url) == Contains(url, p.pattern)

Registry == << [name |-> "b", pattern |-> <<"b">>] >>

MatchLastRegistered(reg, url) ==
    IF \E i \in 1..Len(reg) : ProcessorMatch(reg[i], url)
    THEN CHOOSE i \in 1..Len(reg) :
            /\ ProcessorMatch(reg[i], url)
            /\ \A k \in (i + 1)..Len(reg) : ~ProcessorMatch(reg[k], url)
    ELSE 0

MatchFirstRegistered(reg, url) ==
    IF Len(reg) > 0 THEN 1 ELSE 0

\* index of the first matching processor, 0 for nil
Match(reg, url) ==
    IF \E i \in 1..Len(reg) : ProcessorMatch(reg[i], url)
    THEN CHOOSE i \in 1..Len(reg) :
            /\ ProcessorMatch(reg[i], url)
            /\ \A k \in 1..(i - 1) : ~ProcessorMatch(reg[k], url)
    ELSE 0

(***************************************************************************)
(* State                                                                   *)
(***************************************************************************)
VARIABLES
    jobs,        \* the jobs table: row id -> [url, status, attempts, error]
    lastOp,      \* the store call made by the last step and what it returned
    claimWins,   \* per job: Claim calls that succeeded since another statement last touched the row
    maxRetries,  \* Worker.maxRetries
    phase,       \* "startup": main is before RecoverStale; "running": worker and listener run
    wpc,         \* position of the worker goroutine
    batch,       \* the rest of the slice GetPending returned to poll
    cur,         \* the job variable of processJob
    outcome,     \* what proc.Process returned for cur
    cancelled,   \* ctx of the worker is cancelled
    faults,      \* injected events so far: shutdown signals, kills, database errors
    execs,       \* per job: calls of proc.Process
    fails,       \* per job: calls of proc.Process that returned an error
    hist,        \* per job: the statuses the row went through while the system ran
    processors,  \* Registry.processors when the registry is driven directly
    matchRet,    \* the last Registry.Match call: its argument and the index it returned
    targetDir,   \* p.targetDir: file name -> content
    tempDir,     \* the directory made by os.MkdirTemp: whether it exists, and its files
    entries,     \* moveFiles: the entries of the temp directory still to be handled
    ipc,         \* position of processIsolated
    iret,        \* what processIsolated returned
    startDir,    \* targetDir as it was when the execution in progress began
    produced,    \* what the command of the execution in progress did
    runs,        \* executions begun so far
    renameErr,   \* moveFiles: what os.Rename returned in this turn of the loop ("" for nil)
    calls,       \* per caller of Repository.Create: where the call is and what it returned
    secret,      \* Server.secret
    webReq,      \* the last request to POST /webhook
    webResp,     \* the answer handleWebhook wrote to it
    pArgs,       \* CommandProcessor.args: the argument template
    invoked      \* the last Process call: the job's URL and the arguments the command got

vars == <<jobs, lastOp, claimWins, maxRetries, phase, wpc, batch, cur, outcome,
          cancelled, faults, execs, fails, hist, processors, matchRet,
          targetDir, tempDir, entries, ipc, iret, startDir, produced, runs,
          renameErr, calls,
          secret, webReq, webResp, pArgs, invoked>>

webVars == <<secret, webReq, webResp>>

registryVars == <<processors, matchRet>>

isoVars == <<targetDir, tempDir, entries, ipc, iret, startDir, produced, runs, renameErr>>

\* the state of the processor package and of Repository.Create driven on their own
cmdVars == <<pArgs, invoked>>

procVars == <<registryVars, isoVars, calls, webVars, cmdVars>>

NoDir == [exists |-> FALSE, files |-> <<>>]

NoReturn == [kind |-> "none", err |-> "", output |-> ""]

NoCommand == [files |-> <<>>, err |-> "", output |-> ""]

NoMatchCall == [url |-> <<>>, idx |-> 0, called |-> FALSE]

InitRegistryVars ==
    /\ processors = <<>>
    /\ matchRet = NoMatchCall

NoTimestamp == [kind |-> "none", t |-> 0]

NoBody == [json |-> FALSE, url |-> <<>>]

NoSignature == [kind |-> "none", of |-> <<NoTimestamp, NoBody, "">>]

NoRequest == [timestamp |-> NoTimestamp, signature |-> NoSignature, body |-> NoBody,
              now |-> 0, readOk |-> FALSE, sent |-> FALSE]

NoResponse == [status |-> 0, id |-> 0]

NoInvocation == [called |-> FALSE, url |-> <<>>, args |-> <<>>]

InitCmdVars ==
    /\ pArgs = <<>>
    /\ invoked = NoInvocation

InitWebVars ==
    /\ secret = ""
    /\ webReq = NoRequest
    /\ webResp = NoResponse

InitProc ==
    /\ InitRegistryVars
    /\ targetDir = <<>>
    /\ tempDir = NoDir
    /\ entries = <<>>
    /\ ipc = "idle"
    /\ iret = NoReturn
    /\ startDir = <<>>
    /\ renameErr = ""
    /\ produced = NoCommand
    /\ runs = 0
    /\ calls = <<>>
    /\ InitWebVars
    /\ InitCmdVars

sysVars == <<maxRetries, phase, wpc, batch, cur, outcome, cancelled, faults,
             execs, fails, hist>>

DefaultMaxRetries == 3

NoJob == [id |-> 0, url |-> <<>>, status |-> "", attempts |-> 0, error |-> "",
          created_at |-> 0]

\* time.Now() when the calls of Create follow each other
InOrderNow(js) == Len(js) + 1

OpRec(op, id, res, n) == [op |-> op, id |-> id, res |-> res, n |-> n, arg |-> <<>>]

SubmitRec(raw, id, res) == [op |-> "submit", id |-> id, res |-> res, n |-> 0, arg |-> raw]

\* claimWins after a store call that turned the table into js2: a won Claim
\* counts, any other statement that touched the row starts a new count
WinsAfter(js2, op) ==
    [i \in DOMAIN js2 |->
        IF i \notin DOMAIN jobs THEN 0
        ELSE IF op.op = "claim"
             THEN IF op.id = i /\ op.res = Ok THEN claimWins[i] + 1 ELSE claimWins[i]
        ELSE IF js2[i] # jobs[i] \/ (op.res = Ok /\ op.id = i /\ op.op # "get")
             THEN 0
        ELSE claimWins[i]]

\* one store call: the new table and the record of the call
Apply(js2, op) ==
    /\ jobs' = js2
    /\ lastOp' = op
    /\ claimWins' = WinsAfter(js2, op)

(***************************************************************************)
(* The store API driven directly (as repository_test.go does): any call,   *)
(* with any id and reason, in any order; fault = the database returned an  *)
(* error and the statement had no effect.                                  *)
(***************************************************************************)
StoreURLs == { <<"b", ":", "/">> }
StoreReasons == {"download error"}
StoreIds == 1..(MaxStoreJobs + 1)

InitStore ==
    /\ jobs = <<>>
    /\ lastOp = OpRec("none", 0, Ok, 0)
    /\ claimWins = <<>>
    /\ maxRetries = DefaultMaxRetries
    /\ phase = "running"
    /\ wpc = "wait"
    /\ batch = <<>>
    /\ cur = NoJob
    /\ outcome = ""
    /\ cancelled = FALSE
    /\ faults = 0
    /\ execs = <<>>
    /\ fails = <<>>
    /\ hist = <<>>
    /\ InitProc

StoreCreate(url, fault) ==
    /\ Len(jobs) < MaxStoreJobs
    /\ IF fault
       THEN Apply(jobs, OpRec("create", 0, ErrStorage, 0))
       ELSE Apply(Create(jobs, url, InOrderNow(jobs)), OpRec("create", Len(jobs) + 1, Ok, 1))
    /\ UNCHANGED <<sysVars, procVars>>

StoreGet(id, fault) ==
    /\ Apply(jobs, OpRec("get", id, IF fault THEN ErrStorage ELSE Get(jobs, id), 0))
    /\ UNCHANGED <<sysVars, procVars>>

RECURSIVE TotalAttempts(_)
TotalAttempts(js) ==
    IF js = <<>> THEN 0 ELSE Head(js).attempts + TotalAttempts(Tail(js))

StoreClaim(id, fault) ==
    /\ (~fault /\ ClaimWhere(jobs, id) # {}) => TotalAttempts(jobs) < MaxAttempts
    /\ IF fault
       THEN Apply(jobs, OpRec("claim", id, ErrStorage, 0))
       ELSE Apply(Claim(jobs, id),
                  OpRec("claim", id, ClaimResult(jobs, id),
                        Cardinality(ClaimWhere(jobs, id))))
    /\ UNCHANGED <<sysVars, procVars>>

StoreComplete(id, fault) ==
    /\ IF fault
       THEN Apply(jobs, OpRec("complete", id, ErrStorage, 0))
       ELSE Apply(Complete(jobs, id),
                  OpRec("complete", id, Ok, Cardinality(CompleteWhere(jobs, id))))
    /\ UNCHANGED <<sysVars, procVars>>

StoreFail(id, reason, fault) ==
    /\ IF fault
       THEN Apply(jobs, OpRec("fail", id, ErrStorage, 0))
       ELSE Apply(Fail(jobs, id, reason),
                  OpRec("fail", id, Ok, Cardinality(FailWhere(jobs, id))))
    /\ UNCHANGED <<sysVars, procVars>>

StoreRetry(id, reason, fault) ==
    /\ IF fault
       THEN Apply(jobs, OpRec("retry", id, ErrStorage, 0))
       ELSE Apply(Retry(jobs, id, reason),
                  OpRec("retry", id, Ok, Cardinality(RetryWhere(jobs, id))))
    /\ UNCHANGED <<sysVars, procVars>>

StoreRecoverStale(fault) ==
    /\ IF fault
       THEN Apply(jobs, OpRec("recoverStale", 0, ErrStorage, 0))
       ELSE Apply(RecoverStale(jobs),
                  OpRec("recoverStale", 0, Ok, RecoverStaleCount(jobs)))
    /\ UNCHANGED <<sysVars, procVars>>

NextStore ==
    \/ \E url \in StoreURLs, fault \in BOOLEAN : StoreCreate(url, fault)
    \/ \E id \in StoreIds, fault \in BOOLEAN : StoreGet(id, fault)
    \/ \E id \in StoreIds, fault \in BOOLEAN : StoreClaim(id, fault)
    \/ \E id \in StoreIds, fault \in BOOLEAN : StoreComplete(id, fault)
    \/ \E id \in StoreIds, reason \in StoreReasons, fault \in BOOLEAN :
          StoreFail(id, reason, fault)
    \/ \E id \in StoreIds, reason \in StoreReasons, fault \in BOOLEAN :
          StoreRetry(id, reason, fault)
    \/ \E fault \in BOOLEAN : StoreRecoverStale(fault)

SpecStore == InitStore /\ [][NextStore]_vars

(***************************************************************************)
(* The running system: main (RecoverStale, then worker and listener), the  *)
(* listener's Submit, the worker goroutine step by step, cancellation and  *)
(* process termination followed by a restart on the same database.         *)
(***************************************************************************)
SysURLs == { <<"b", ":", "/">>, <<"a", ":", "/">>, <<"a">> }
ProcessOk == "ok"
ProcessErrs == {"exit status 1"}

\* hist after a step that turned the table into js2
HistAfter(js2) ==
    [i \in DOMAIN js2 |->
        IF i \notin DOMAIN jobs THEN <<js2[i].status>>
        ELSE IF js2[i].status # jobs[i].status THEN Append(hist[i], js2[i].status)
        ELSE hist[i]]

SysApply(js2, op) ==
    /\ Apply(js2, op)
    /\ hist' = HistAfter(js2)

NoStoreCall == SysApply(jobs, OpRec("none", 0, Ok, 0))

\* a store call made with the worker's ctx fails when the database fails
\* (fault, an injected event) or when ctx is already cancelled
FaultAllowed(fault) == fault => (faults < MaxFaults /\ ~cancelled)

CallFails(fault) == fault \/ cancelled

FaultsAfter(fault) == IF fault THEN faults + 1 ELSE faults

InitSys ==
    /\ jobs = <<>>
    /\ lastOp = OpRec("none", 0, Ok, 0)
    /\ claimWins = <<>>
    /\ maxRetries \in 1..MaxRetriesBound
    /\ phase = "startup"
    /\ wpc = "wait"
    /\ batch = <<>>
    /\ cur = NoJob
    /\ outcome = ""
    /\ cancelled = FALSE
    /\ faults = 0
    /\ execs = <<>>
    /\ fails = <<>>
    /\ hist = <<>>
    /\ InitProc

\* main: RecoverStale with context.Background(), an error is only logged;
\* then the worker and the listener are started
Startup(fault) ==
    /\ phase = "startup"
    /\ fault => faults < MaxFaults
    /\ IF fault
       THEN SysApply(jobs, OpRec("recoverStale", 0, ErrStorage, 0))
       ELSE SysApply(RecoverStale(jobs),
                     OpRec("recoverStale", 0, Ok, RecoverStaleCount(jobs)))
    /\ faults' = FaultsAfter(fault)
    /\ phase' = "running"
    /\ UNCHANGED <<procVars, maxRetries, wpc, batch, cur, outcome, cancelled, execs, fails>>

\* JobService.Submit, called by the listener with the request's context
SubmitJobAt(raw, now, fault, cap) ==
    /\ phase = "running"
    /\ IF ~ParseRequestURI(raw)
       THEN /\ SysApply(jobs, SubmitRec(raw, 0, ErrInvalidURL))
            /\ UNCHANGED <<faults, execs, fails>>
       ELSE /\ Len(jobs) < cap
            /\ fault => faults < MaxFaults
            /\ IF fault
               THEN /\ SysApply(jobs, SubmitRec(raw, 0, ErrStorage))
                    /\ UNCHANGED <<execs, fails>>
               ELSE /\ SysApply(Create(jobs, raw, now), SubmitRec(raw, Len(jobs) + 1, Ok))
                    /\ execs' = Append(execs, 0)
                    /\ fails' = Append(fails, 0)
            /\ faults' = FaultsAfter(fault)
    /\ UNCHANGED <<procVars, maxRetries, phase, wpc, batch, cur, outcome, cancelled>>

SubmitJob(raw, fault, cap) == SubmitJobAt(raw, InOrderNow(jobs), fault, cap)

Submit(raw, fault) == SubmitJob(raw, fault, MaxJobs)

\* the shutdown signal (an injected event): main calls cancel()
Cancel ==
    /\ phase = "running"
    /\ ~cancelled
    /\ faults < MaxFaults
    /\ faults' = faults + 1
    /\ cancelled' = TRUE
    /\ NoStoreCall
    /\ UNCHANGED <<procVars, maxRetries, phase, wpc, batch, cur, outcome, execs, fails>>

\* the process ends and is started again on the same database
ProcessEnds ==
    /\ phase' = "startup"
    /\ wpc' = "wait"
    /\ batch' = <<>>
    /\ cur' = NoJob
    /\ outcome' = ""
    /\ cancelled' = FALSE

\* the process is killed (an injected event), wherever the worker is
Die ==
    /\ phase = "running"
    /\ ~cancelled
    /\ faults < MaxFaults
    /\ faults' = faults + 1
    /\ ProcessEnds
    /\ NoStoreCall
    /\ UNCHANGED <<procVars, maxRetries, execs, fails>>

\* main returns after the signal without waiting for the worker goroutine
Exit ==
    /\ phase = "running"
    /\ cancelled
    /\ ProcessEnds
    /\ NoStoreCall
    /\ UNCHANGED <<procVars, maxRetries, faults, execs, fails>>

WorkerRunningBeforeRecovery == phase \in {"startup", "running"}

\* main starts the worker goroutine (go w.Run(ctx)) after RecoverStale returned
WorkerRunning == phase = "running"

\* Worker.Run: the select takes the ticker case and calls poll
WTick(fault) ==
    /\ WorkerRunning
    /\ wpc = "wait"
    /\ FaultAllowed(fault)
    /\ IF CallFails(fault)
       THEN /\ SysApply(jobs, OpRec("findPending", 0, ErrStorage, 0))
            /\ UNCHANGED <<wpc, batch>>
       ELSE \E r \in FindPending(jobs, PollLimit) :
            /\ SysApply(jobs, OpRec("findPending", 0, Ok, Len(r)))
            /\ batch' = r
            /\ wpc' = "loop"
    /\ faults' = FaultsAfter(fault)
    /\ UNCHANGED <<procVars, maxRetries, phase, cur, outcome, cancelled, execs, fails>>

\* Worker.Run: the select takes the ctx.Done() case and Run returns
WStop ==
    /\ phase = "running"
    /\ wpc = "wait"
    /\ cancelled
    /\ wpc' = "stopped"
    /\ NoStoreCall
    /\ UNCHANGED <<procVars, maxRetries, phase, batch, cur, outcome, cancelled, faults, execs, fails>>

WLoopKeepsBatch ==
    /\ phase = "running"
    /\ wpc = "loop"
    /\ IF batch = <<>>
       THEN wpc' = "wait" /\ UNCHANGED <<batch, cur>>
       ELSE IF cancelled
            THEN wpc' = "wait" /\ batch' = <<>> /\ UNCHANGED cur
            ELSE wpc' = "process" /\ cur' = Head(batch) /\ UNCHANGED batch
    /\ NoStoreCall
    /\ UNCHANGED <<procVars, maxRetries, phase, outcome, cancelled, faults, execs, fails>>

\* Worker.poll: one turn of the for loop over the fetched jobs
WLoop ==
    /\ phase = "running"
    /\ wpc = "loop"
    /\ IF batch = <<>>
       THEN wpc' = "wait" /\ UNCHANGED <<batch, cur>>
       ELSE IF cancelled
            THEN wpc' = "wait" /\ batch' = <<>> /\ UNCHANGED cur
            ELSE wpc' = "process" /\ cur' = Head(batch) /\ batch' = Tail(batch)
    /\ NoStoreCall
    /\ UNCHANGED <<procVars, maxRetries, phase, outcome, cancelled, faults, execs, fails>>

\* Worker.processJob up to the claim: Match, then MarkFailed or MarkProcessing
WBegin(fault) ==
    /\ phase = "running"
    /\ wpc = "process"
    /\ FaultAllowed(fault)
    /\ IF Match(Registry, cur.url) = 0
       THEN /\ IF CallFails(fault)
               THEN SysApply(jobs, OpRec("fail", cur.id, ErrStorage, 0))
               ELSE SysApply(Fail(jobs, cur.id, NoProcessorReason),
                             OpRec("fail", cur.id, Ok, Cardinality(FailWhere(jobs, cur.id))))
            /\ wpc' = "loop"
       ELSE IF CallFails(fault)
            THEN /\ SysApply(jobs, OpRec("claim", cur.id, ErrStorage, 0))
                 /\ wpc' = "loop"
            ELSE /\ SysApply(Claim(jobs, cur.id),
                             OpRec("claim", cur.id, ClaimResult(jobs, cur.id),
                                   Cardinality(ClaimWhere(jobs, cur.id))))
                 /\ wpc' = IF ClaimResult(jobs, cur.id) = Ok THEN "claimed" ELSE "loop"
    /\ faults' = FaultsAfter(fault)
    /\ UNCHANGED <<procVars, maxRetries, phase, batch, cur, outcome, cancelled, execs, fails>>

\* Worker.processJob: the refresh after the claim.  On an error Get returns a
\* nil job, the log statement reads job.ID of it and the goroutine panics,
\* which ends the process.
WRefresh(fault) ==
    /\ phase = "running"
    /\ wpc = "claimed"
    /\ FaultAllowed(fault)
    /\ IF CallFails(fault)
       THEN /\ SysApply(jobs, OpRec("get", cur.id, ErrStorage, 0))
            /\ ProcessEnds
       ELSE /\ SysApply(jobs, OpRec("get", cur.id, Get(jobs, cur.id), 0))
            /\ cur' = Snapshot(jobs, cur.id)
            /\ wpc' = "exec"
            /\ UNCHANGED <<phase, batch, outcome, cancelled>>
    /\ faults' = FaultsAfter(fault)
    /\ UNCHANGED <<procVars, maxRetries, execs, fails>>

\* Worker.processJob: proc.Process(ctx, job) returns nil or an error
WExec(out) ==
    /\ phase = "running"
    /\ wpc = "exec"
    /\ outcome' = out
    /\ execs' = [execs EXCEPT ![cur.id] = @ + 1]
    /\ fails' = [fails EXCEPT ![cur.id] = IF out = ProcessOk THEN @ ELSE @ + 1]
    /\ wpc' = "record"
    /\ NoStoreCall
    /\ UNCHANGED <<procVars, maxRetries, phase, batch, cur, cancelled, faults>>

\* Worker.processJob: the outcome is recorded; the result of the Mark call is dropped
WRecord(fault) ==
    /\ phase = "running"
    /\ wpc = "record"
    /\ FaultAllowed(fault)
    /\ LET op == IF outcome = ProcessOk THEN "complete"
                 ELSE IF CanRetry(cur, maxRetries) THEN "retry" ELSE "fail"
           js2 == IF op = "complete" THEN Complete(jobs, cur.id)
                  ELSE IF op = "retry" THEN Retry(jobs, cur.id, outcome)
                  ELSE Fail(jobs, cur.id, outcome)
       IN  IF CallFails(fault)
           THEN SysApply(jobs, OpRec(op, cur.id, ErrStorage, 0))
           ELSE SysApply(js2, OpRec(op, cur.id, Ok, 1))
    /\ wpc' = "loop"
    /\ cur' = NoJob
    /\ outcome' = ""
    /\ faults' = FaultsAfter(fault)
    /\ UNCHANGED <<procVars, maxRetries, phase, batch, cancelled, execs, fails>>

Next ==
    \/ \E fault \in BOOLEAN : Startup(fault)
    \/ \E raw \in SysURLs, fault \in BOOLEAN : Submit(raw, fault)
    \/ Cancel
    \/ Die
    \/ Exit
    \/ \E fault \in BOOLEAN : WTick(fault)
    \/ WStop
    \/ WLoop
    \/ \E fault \in BOOLEAN : WBegin(fault)
    \/ \E fault \in BOOLEAN : WRefresh(fault)
    \/ \E out \in {ProcessOk} \cup ProcessErrs : WExec(out)
    \/ \E fault \in BOOLEAN : WRecord(fault)

Spec == InitSys /\ [][Next]_vars

\* the system in one process lifetime in which the database never fails and
\* no shutdown signal arrives
NextQuiet ==
    \/ Startup(FALSE)
    \/ \E raw \in SysURLs : Submit(raw, FALSE)
    \/ WTick(FALSE)
    \/ WLoop
    \/ WBegin(FALSE)
    \/ WRefresh(FALSE)
    \/ \E out \in {ProcessOk} \cup ProcessErrs : WExec(out)
    \/ WRecord(FALSE)

WorkerStepQuiet ==
    \/ WTick(FALSE)
    \/ WLoop
    \/ WBegin(FALSE)
    \/ WRefresh(FALSE)
    \/ \E out \in {ProcessOk} \cup ProcessErrs : WExec(out)
    \/ WRecord(FALSE)

\* the ticker keeps firing and the worker goroutine and main keep running
SpecQuiet ==
    /\ InitSys
    /\ [][NextQuiet]_vars
    /\ WF_vars(WorkerStepQuiet)
    /\ WF_vars(Startup(FALSE))

\* the system over several process lifetimes (shutdown signals and kills, a
\* database that does not fail), where the ticker keeps firing, the worker
\* goroutine and main keep running and a process that ended is started again
CrashURLs == { <<"b", ":", "/">> }

NextCrash ==
    \/ Startup(FALSE)
    \/ \E raw \in CrashURLs : SubmitJob(raw, FALSE, MaxCrashJobs)
    \/ Cancel
    \/ Die
    \/ Exit
    \/ WTick(FALSE)
    \/ WStop
    \/ WLoop
    \/ WBegin(FALSE)
    \/ WRefresh(FALSE)
    \/ \E out \in {ProcessOk} \cup ProcessErrs : WExec(out)
    \/ WRecord(FALSE)

SpecCrash ==
    /\ InitSys
    /\ [][NextCrash]_vars
    /\ WF_vars(WorkerStepQuiet)
    /\ WF_vars(Startup(FALSE))
    /\ WF_vars(Exit)

(***************************************************************************)
(* Submit driven alone, with every string over Chars up to MaxLen and a    *)
(* few longer ones that reach the authority part of the parser.            *)
(***************************************************************************)
ExtraRawURLs ==
    { <<"a", ":", "/", "/", ":", "b">>,
      <<"a", ":", "/", "/", "b", ":", "1", "/">>,
      <<"/", "/", "b", ":", "a">> }

RawURLs == UNION {[1..n -> Chars] : n \in 0..MaxLen} \cup ExtraRawURLs

InitSubmit ==
    /\ jobs = <<>>
    /\ lastOp = OpRec("none", 0, Ok, 0)
    /\ claimWins = <<>>
    /\ maxRetries = DefaultMaxRetries
    /\ phase = "running"
    /\ wpc = "wait"
    /\ batch = <<>>
    /\ cur = NoJob
    /\ outcome = ""
    /\ cancelled = FALSE
    /\ faults = 0
    /\ execs = <<>>
    /\ fails = <<>>
    /\ hist = <<>>
    /\ InitProc

NextSubmit ==
    \E raw \in RawURLs, fault \in BOOLEAN : SubmitJob(raw, fault, MaxSubmitJobs)

SpecSubmit == InitSubmit /\ [][NextSubmit]_vars

(***************************************************************************)
(* The registry driven directly (as the registry tests do): Register with  *)
(* any processor, Match with any URL, in any order.                        *)
(***************************************************************************)
ProcessorNames == {"p", "q", "r"}
Patterns == { <<"a">>, <<"b">> }
Processors == [name : ProcessorNames, pattern : Patterns]
MatchURLs == { <<"a">>, <<"b">>, <<"a", "b">>, <<"1">> }

InitRegistry == InitStore

\* Registry.Register
Register(p) ==
    /\ Len(processors) < MaxProcessors
    /\ processors' = Append(processors, p)
    /\ UNCHANGED <<jobs, lastOp, claimWins, sysVars, matchRet, isoVars, calls, webVars, cmdVars>>

\* Registry.Match
RegistryMatch(url) ==
    /\ matchRet' = [url |-> url, idx |-> Match(processors, url), called |-> TRUE]
    /\ UNCHANGED <<jobs, lastOp, claimWins, sysVars, processors, isoVars, calls, webVars, cmdVars>>

NextRegistry ==
    \/ \E p \in Processors : Register(p)
    \/ \E url \in MatchURLs : RegistryMatch(url)

SpecRegistry == InitRegistry /\ [][NextRegistry]_vars

(***************************************************************************)
(* CommandProcessor.processIsolated driven directly: executions that       *)
(* follow each other on one target directory.  A file is a name and a      *)
(* content (a sequence of bytes); a directory maps names to contents.      *)
(* Every call into the operating system may fail.                          *)
(***************************************************************************)
FileNames == 1..MaxFiles
OldData == <<"o">>
NewData == <<"n", "w">>
\* an entry of the temp directory that is a subdirectory; what is in it is not
\* looked at
Subdirectory == <<"/">>
\* the errors of os.Rename: source and destination on different devices, and
\* another one
ErrCrossDevice == "invalid cross-device link"
RenameErrs == {ErrCrossDevice, "permission denied"}
CommandOutputs == {"some output"}
CommandErrs == {"exit status 1", "executable file not found", "signal: killed"}

Put(dir, f, data) == [x \in DOMAIN dir \cup {f} |-> IF x = f THEN data ELSE dir[x]]

Del(dir, f) == [x \in DOMAIN dir \ {f} |-> dir[x]]

RemoveAllNothing(dir) == dir

\* defer os.RemoveAll(tempDir)
RemoveAll(dir) == NoDir

IsDirNever(dir, f) == FALSE

\* entry.IsDir()
IsDir(dir, f) == dir[f] = Subdirectory

DstNeverExists(dir, f) == FALSE

\* os.Stat(dst) returned no error
DstExists(dir, f) == f \in DOMAIN dir

CommandErrorWithoutOutput(err, output) ==
    [kind |-> "command failed", err |-> err, output |-> ""]

\* fmt.Errorf("%s failed: %w: %s", p.command, err, string(output))
CommandError(err, output) ==
    [kind |-> "command failed", err |-> err, output |-> output]

OtherError(what) == [kind |-> what, err |-> what, output |-> ""]

ReturnNil == [kind |-> "nil", err |-> "", output |-> ""]

restVars == <<jobs, lastOp, claimWins, sysVars, registryVars, calls, webVars, cmdVars>>

InitIsolated ==
    /\ jobs = <<>>
    /\ lastOp = OpRec("none", 0, Ok, 0)
    /\ claimWins = <<>>
    /\ maxRetries = DefaultMaxRetries
    /\ phase = "running"
    /\ wpc = "wait"
    /\ batch = <<>>
    /\ cur = NoJob
    /\ outcome = ""
    /\ cancelled = FALSE
    /\ faults = 0
    /\ execs = <<>>
    /\ fails = <<>>
    /\ hist = <<>>
    /\ InitRegistryVars
    /\ targetDir \in UNION {[S -> {OldData}] : S \in SUBSET FileNames}
    /\ tempDir = NoDir
    /\ entries = <<>>
    /\ ipc = "idle"
    /\ iret = NoReturn
    /\ startDir = <<>>
    /\ renameErr = ""
    /\ produced = NoCommand
    /\ runs = 0
    /\ calls = <<>>
    /\ InitWebVars
    /\ InitCmdVars

\* processIsolated returns ret; the deferred RemoveAll runs
IsoReturn(ret) ==
    /\ iret' = ret
    /\ ipc' = "returned"
    /\ tempDir' = RemoveAll(tempDir)
    /\ entries' = <<>>

\* processIsolated: os.MkdirTemp
IsoBegin(ok) ==
    /\ ipc \in {"idle", "returned"}
    /\ runs < MaxRuns
    /\ runs' = runs + 1
    /\ startDir' = targetDir
    /\ produced' = NoCommand
    /\ renameErr' = ""
    /\ IF ok
       THEN /\ tempDir' = [exists |-> TRUE, files |-> <<>>]
            /\ ipc' = "run"
            /\ iret' = NoReturn
            /\ entries' = <<>>
       ELSE /\ iret' = OtherError("create temp dir")
            /\ ipc' = "returned"
            /\ UNCHANGED <<tempDir, entries>>
    /\ UNCHANGED <<targetDir, restVars>>

\* processIsolated: cmd.CombinedOutput() with cmd.Dir = tempDir; the command
\* writes files into its working directory and ends with err ("" for exit 0;
\* a cancelled ctx kills it)
IsoCommand(files, err, output) ==
    /\ ipc = "run"
    /\ produced' = [files |-> files, err |-> err, output |-> output]
    /\ IF err = ""
       THEN /\ tempDir' = [exists |-> TRUE, files |-> files]
            /\ ipc' = "readdir"
            /\ UNCHANGED <<iret, entries>>
       ELSE IsoReturn(CommandError(err, output))
    /\ UNCHANGED <<targetDir, startDir, runs, renameErr, restVars>>

\* moveFiles: os.ReadDir(srcDir) and os.MkdirAll(p.targetDir)
IsoReadDir(ok) ==
    /\ ipc = "readdir"
    /\ IF ok
       THEN /\ entries' = Ascending(DOMAIN tempDir.files)
            /\ ipc' = "move"
            /\ UNCHANGED <<iret, tempDir>>
       ELSE IsoReturn(OtherError("read dir"))
    /\ UNCHANGED <<targetDir, startDir, produced, runs, renameErr, restVars>>

\* moveFiles: one turn of the loop: a subdirectory and a name that exists in
\* the target are passed over; otherwise os.Rename returns err ("" for
\* nil) and, whenever it is not nil, copyFile runs: its os.ReadFile fails, or
\* the turn goes up to the point where copyFile's os.WriteFile has created dst
IsoMove(err, readOk) ==
    /\ ipc = "move"
    /\ entries # <<>>
    /\ LET f == Head(entries) IN
       IF IsDir(tempDir.files, f) \/ DstExists(targetDir, f)
       THEN /\ entries' = Tail(entries)
            /\ renameErr' = ""
            /\ UNCHANGED <<targetDir, tempDir, ipc, iret>>
       ELSE /\ renameErr' = err
            /\ IF err = ""
               THEN /\ targetDir' = Put(targetDir, f, tempDir.files[f])
                    /\ tempDir' = [tempDir EXCEPT !.files = Del(tempDir.files, f)]
                    /\ entries' = Tail(entries)
                    /\ UNCHANGED <<ipc, iret>>
               ELSE IF readOk
               THEN /\ targetDir' = Put(targetDir, f, <<>>)
                    /\ ipc' = "write"
                    /\ UNCHANGED <<tempDir, entries, iret>>
               ELSE /\ IsoReturn(OtherError("copy"))
                    /\ UNCHANGED targetDir
    /\ UNCHANGED <<startDir, produced, runs, restVars>>

\* copyFile: os.WriteFile writes the first n bytes of the data; with all of
\* them written moveFiles removes src and goes on, otherwise it returns the error
IsoWrite(n) ==
    /\ ipc = "write"
    /\ LET f == Head(entries)
           data == tempDir.files[f]
       IN  /\ n \in 0..Len(data)
           /\ targetDir' = Put(targetDir, f, SubSeq(data, 1, n))
           /\ IF n = Len(data)
              THEN /\ tempDir' = [tempDir EXCEPT !.files = Del(tempDir.files, f)]
                   /\ entries' = Tail(entries)
                   /\ ipc' = "move"
                   /\ UNCHANGED iret
              ELSE IsoReturn(OtherError("copy"))
    /\ UNCHANGED <<startDir, produced, runs, renameErr, restVars>>

\* moveFiles returns nil after the last entry
IsoFinish ==
    /\ ipc = "move"
    /\ entries = <<>>
    /\ IsoReturn(ReturnNil)
    /\ UNCHANGED <<targetDir, startDir, produced, runs, renameErr, restVars>>

NextIsolated ==
    \/ \E ok \in BOOLEAN : IsoBegin(ok)
    \/ \E files \in UNION {[S -> {NewData, Subdirectory}] : S \in SUBSET FileNames},
          output \in CommandOutputs :
          \/ IsoCommand(files, "", output)
          \/ \E err \in CommandErrs : IsoCommand(files, err, output)
    \/ \E ok \in BOOLEAN : IsoReadDir(ok)
    \/ \E err \in {""} \cup RenameErrs, readOk \in BOOLEAN : IsoMove(err, readOk)
    \/ \E n \in 0..Len(NewData) : IsoWrite(n)
    \/ IsoFinish

SpecIsolated == InitIsolated /\ [][NextIsolated]_vars

(***************************************************************************)
(* Properties of the store                                                 *)
(***************************************************************************)
IsClaimOf(op, id) == op.op = "claim" /\ op.id = id /\ op.res # ErrStorage

\* C1: when Claim calls on one id follow each other while the job is pending
\* (no other statement touches the row in between), exactly one of them
\* succeeds; every other one returns NotFound and leaves the table as it is.
C1_OneWinnerState ==
    \A id \in DOMAIN jobs :
        /\ claimWins[id] <= 1
        /\ (IsClaimOf(lastOp, id) /\ jobs[id].status \in {StatusPending, StatusProcessing})
              => (claimWins[id] = 1 /\ jobs[id].status = StatusProcessing)

C1_LoserFrame ==
    (lastOp'.op = "claim" /\ lastOp'.res = ErrJobNotFound) => jobs' = jobs

C1_ExactlyOneClaimSucceeds == [](C1_OneWinnerState) /\ [][C1_LoserFrame]_vars

C1_Witness ==
    \E id \in DOMAIN jobs :
        /\ lastOp = OpRec("claim", id, ErrJobNotFound, 0)
        /\ claimWins[id] = 1
        /\ jobs[id].status = StatusProcessing

\* C2: a successful Claim is one step that takes the row from pending to
\* processing and adds 1 to attempts; Claim on an absent id or on a row that is
\* processing, completed or failed returns NotFound and changes nothing.
C2_ClaimStep(id) ==
    IsClaimOf(lastOp', id) =>
        IF id \in DOMAIN jobs /\ jobs[id].status = StatusPending
        THEN /\ lastOp'.res = Ok
             /\ jobs' = [jobs EXCEPT ![id].status = StatusProcessing,
                                     ![id].attempts = jobs[id].attempts + 1]
        ELSE /\ lastOp'.res = ErrJobNotFound
             /\ jobs' = jobs

C2_ClaimIsAtomicAndGuarded == [][\A id \in StoreIds : C2_ClaimStep(id)]_vars

C2_Witness ==
    /\ \E id \in DOMAIN jobs :
          jobs[id].status = StatusProcessing /\ jobs[id].attempts = 2
    /\ lastOp.op = "claim" /\ lastOp.res = ErrJobNotFound
    /\ lastOp.id \notin DOMAIN jobs

\* C3: attempts never decreases, grows by exactly 1 at each successful Claim
\* and is left unchanged by every other operation.
C3_AttemptsStep ==
    \A id \in DOMAIN jobs :
        jobs'[id].attempts =
            jobs[id].attempts + (IF lastOp'.op = "claim" /\ lastOp'.id = id /\ lastOp'.res = Ok
                                 THEN 1 ELSE 0)

C3_AttemptsOnlyGrowByClaim == [][C3_AttemptsStep]_vars

C3_Witness ==
    \E id \in DOMAIN jobs :
        /\ jobs[id].attempts = 2
        /\ jobs[id].status = StatusPending
        /\ lastOp = OpRec("retry", id, Ok, 1)

\* C4: once a job is completed, no operation changes its status, attempts or
\* error again.
C4_CompletedIsTerminal ==
    [][\A id \in DOMAIN jobs :
          jobs[id].status = StatusCompleted => jobs'[id] = jobs[id]]_vars

\* C5: a job whose error is non-empty is pending or failed; a job in
\* processing or completed has an empty error.
C5_ErrorOnlyWhenPendingOrFailed ==
    \A id \in DOMAIN jobs :
        jobs[id].error # "" => jobs[id].status \in {StatusPending, StatusFailed}

\* C6: RecoverStale on a table with N rows in processing returns N, leaves no
\* row in processing, makes exactly those N rows pending with the recovery
\* marker and their attempts unchanged, and leaves every other row as it is.
C6_RecoverStep ==
    (lastOp'.op = "recoverStale" /\ lastOp'.res = Ok) =>
        /\ lastOp'.n = Cardinality({i \in DOMAIN jobs : jobs[i].status = StatusProcessing})
        /\ DOMAIN jobs' = DOMAIN jobs
        /\ \A i \in DOMAIN jobs :
              /\ jobs'[i].status # StatusProcessing
              /\ IF jobs[i].status = StatusProcessing
                 THEN jobs'[i] = [jobs[i] EXCEPT !.status = StatusPending,
                                                 !.error = RecoveredMarker]
                 ELSE jobs'[i] = jobs[i]

C6_RecoverStaleResetsExactlyProcessing == [][C6_RecoverStep]_vars

C6_Witness ==
    /\ lastOp = OpRec("recoverStale", 0, Ok, 1)
    /\ \E i \in DOMAIN jobs :
          /\ jobs[i].status = StatusPending
          /\ jobs[i].error = RecoveredMarker
          /\ jobs[i].attempts >= 1
    /\ \E i \in DOMAIN jobs :
          jobs[i].status = StatusFailed /\ jobs[i].error \in StoreReasons

(***************************************************************************)
(* Properties of the worker                                                *)
(***************************************************************************)
\* C7: when the execution of a claimed job fails and the store accepts the
\* write, the worker decides on the attempts value read after the claim:
\* below maxRetries the job goes back to pending, at maxRetries or above it
\* goes to failed.
C7_RecordStep ==
    (wpc = "record" /\ wpc' = "loop" /\ outcome \in ProcessErrs /\ lastOp'.res = Ok) =>
        /\ cur.attempts = jobs[cur.id].attempts
        /\ jobs[cur.id].status = StatusProcessing
        /\ cur.attempts < maxRetries => jobs'[cur.id].status = StatusPending
        /\ cur.attempts >= maxRetries => jobs'[cur.id].status = StatusFailed
        /\ jobs'[cur.id].attempts = cur.attempts

C7_RetryDecidedOnPostClaimAttempts == [][C7_RecordStep]_vars

C7_Witness ==
    /\ maxRetries = 2
    /\ \E i \in DOMAIN jobs :
          /\ lastOp = OpRec("retry", i, Ok, 1)
          /\ jobs[i].status = StatusPending
          /\ jobs[i].attempts = maxRetries - 1
    /\ \E k \in DOMAIN jobs :
          /\ jobs[k].status = StatusFailed
          /\ jobs[k].attempts = maxRetries
          /\ jobs[k].error \in ProcessErrs

\* some / no registered processor accepts the URL
SomeHandlerMatches(url) == \E k \in 1..Len(Registry) : ProcessorMatch(Registry[k], url)

NoHandlerMatches(url) == \A k \in 1..Len(Registry) : ~ProcessorMatch(Registry[k], url)

\* the status sequence of a job that was executed n times, failed every time
\* and was then given up: pending, (processing, pending) n - 1 times,
\* processing, failed
RECURSIVE FailingRun(_)
FailingRun(n) ==
    IF n <= 1 THEN <<StatusPending, StatusProcessing, StatusFailed>>
    ELSE <<StatusPending, StatusProcessing>> \o FailingRun(n - 1)

C8_Undisturbed(i) ==
    /\ i \in DOMAIN jobs
    /\ maxRetries >= 1
    /\ faults = 0
    /\ ~cancelled
    /\ SomeHandlerMatches(jobs[i].url)
    /\ fails[i] = execs[i]

C8_Safe ==
    \A i \in DOMAIN jobs :
        C8_Undisturbed(i)
        => /\ execs[i] <= maxRetries
           /\ jobs[i].attempts <= maxRetries
           /\ jobs[i].status # StatusCompleted
           /\ jobs[i].status = StatusFailed =>
                 /\ execs[i] = maxRetries
                 /\ jobs[i].attempts = maxRetries
                 /\ hist[i] = FailingRun(maxRetries)

C8_Live ==
    \A i \in 1..MaxJobs :
        C8_Undisturbed(i) ~> (~C8_Undisturbed(i) \/ jobs[i].status = StatusFailed)

\* C8: with maxRetries >= 1 and no crash or storage error, a job whose handler
\* fails on every execution is never executed or claimed more than maxRetries
\* times; it ends in failed, and then it has been executed exactly maxRetries
\* times, has attempts = maxRetries and went pending, processing, pending, ...,
\* processing, failed.
C8_AlwaysFailingJobRunsMaxRetriesTimes == [](C8_Safe) /\ C8_Live

C8_Witness ==
    /\ maxRetries = 2
    /\ faults = 0
    /\ \E i \in DOMAIN jobs :
          /\ jobs[i].status = StatusFailed
          /\ jobs[i].attempts = 2
          /\ execs[i] = 2
          /\ fails[i] = 2
          /\ hist[i] = <<StatusPending, StatusProcessing, StatusPending,
                         StatusProcessing, StatusFailed>>

\* C9: a job whose URL matches no registered processor is never claimed: it is
\* pending or failed with attempts 0, and the poll cycle that reaches it marks
\* it failed with "no processor for URL" (when the store accepts the write).
C9_NoHandlerState ==
    \A i \in DOMAIN jobs :
        NoHandlerMatches(jobs[i].url) =>
            /\ jobs[i].attempts = 0
            /\ execs[i] = 0
            /\ hist[i] \in {<<StatusPending>>, <<StatusPending, StatusFailed>>}
            /\ jobs[i].status = StatusFailed => jobs[i].error = NoProcessorReason
            /\ jobs[i].status = StatusPending => jobs[i].error = ""

C9_NoHandlerStep ==
    (wpc = "process" /\ wpc' = "loop" /\ NoHandlerMatches(cur.url) /\ lastOp'.res = Ok) =>
        jobs' = [jobs EXCEPT ![cur.id].status = StatusFailed,
                             ![cur.id].error = NoProcessorReason]

C9_NoHandlerFailsWithoutClaim == [](C9_NoHandlerState) /\ [][C9_NoHandlerStep]_vars

C9_Witness ==
    \E i \in DOMAIN jobs :
        /\ NoHandlerMatches(jobs[i].url)
        /\ lastOp = OpRec("fail", i, Ok, 1)
        /\ jobs[i].url = <<"a", ":", "/">>
        /\ jobs[i].status = StatusFailed
        /\ jobs[i].attempts = 0
        /\ jobs[i].error = NoProcessorReason
        /\ hist[i] = <<StatusPending, StatusFailed>>

\* an absolute URL: a scheme (a letter, then letters or digits), a colon, and,
\* when "//" follows, an authority whose port is empty or numeric
IsAbsoluteURL(s) ==
    \E c \in 2..Len(s) :
        /\ s[c] = ":"
        /\ s[1] \in Letters
        /\ \A k \in 2..(c - 1) : s[k] \in Letters \cup Digits
        /\ LET rest == SubSeq(s, c + 1, Len(s))
               after == SubSeq(rest, 3, Len(rest))
               slash == IndexOf(after, "/")
               authority == IF slash = 0 THEN after ELSE SubSeq(after, 1, slash - 1)
           IN  HasPrefix(rest, <<"/", "/">>) => parseHostOk(authority)

\* C10: Submit with a string that is not a well-formed absolute URL returns
\* InvalidURL and leaves the table as it is (no row, no id consumed).
C10_SubmitStep ==
    (lastOp'.op = "submit" /\ ~IsAbsoluteURL(lastOp'.arg)) =>
        (lastOp'.res = ErrInvalidURL /\ jobs' = jobs)

C10_InvalidURLNeverCreatesJob == [][C10_SubmitStep]_vars

(***************************************************************************)
(* Properties of startup, crash recovery and shutdown                      *)
(***************************************************************************)
WorkerStoreOps == {"findPending", "claim", "get", "complete", "retry", "fail"}

\* C11: in every process lifetime the worker does nothing before RecoverStale
\* has returned (no poll, no claim, nothing fetched), and when RecoverStale
\* succeeded no job is in processing at the moment the worker starts.
C11_IdleBeforeRecovery ==
    phase = "startup" => (wpc = "wait" /\ batch = <<>> /\ cur = NoJob)

C11_RecoveryStep ==
    /\ lastOp'.op \in WorkerStoreOps => phase = "running"
    /\ (phase = "startup" /\ phase' = "running") =>
          /\ lastOp'.op = "recoverStale"
          /\ wpc' = "wait"
          /\ lastOp'.res = Ok =>
                \A i \in DOMAIN jobs' : jobs'[i].status # StatusProcessing

C11_RecoveryPrecedesWorker ==
    [](C11_IdleBeforeRecovery) /\ [][C11_RecoveryStep]_vars

C11_Witness ==
    /\ faults >= 1
    /\ phase = "running"
    /\ wpc = "wait"
    /\ lastOp = OpRec("recoverStale", 0, Ok, 1)
    /\ \E i \in DOMAIN jobs :
          /\ jobs[i].status = StatusPending
          /\ jobs[i].error = RecoveredMarker
          /\ jobs[i].attempts = 1

\* C12: wherever the process stops, the stop itself changes no row; the next
\* startup's recovery, when it succeeds, leaves every job pending, completed or
\* failed with the attempts it had, the ones that were processing now pending
\* with the recovery marker; and a job returned to pending by the recovery is
\* claimed again by a later poll.
C12_CrashStep ==
    (phase = "running" /\ phase' = "startup") => jobs' = jobs

C12_RecoverStep ==
    (phase = "startup" /\ phase' = "running" /\ lastOp'.res = Ok) =>
        /\ DOMAIN jobs' = DOMAIN jobs
        /\ \A i \in DOMAIN jobs :
              /\ jobs'[i].status \in {StatusPending, StatusCompleted, StatusFailed}
              /\ jobs'[i].attempts = jobs[i].attempts
              /\ jobs[i].status = StatusProcessing =>
                    (jobs'[i].status = StatusPending /\ jobs'[i].error = RecoveredMarker)
              /\ jobs[i].status # StatusProcessing => jobs'[i] = jobs[i]

C12_Recovered(i) ==
    /\ i \in DOMAIN jobs
    /\ jobs[i].status = StatusPending
    /\ jobs[i].error = RecoveredMarker

C12_PickedUpAgain ==
    \A i \in 1..MaxCrashJobs :
        C12_Recovered(i) ~> (i \in DOMAIN jobs /\ jobs[i].status = StatusProcessing)

C12_SafeCrashRecovery ==
    /\ [][C12_CrashStep /\ C12_RecoverStep]_vars
    /\ C12_PickedUpAgain

\* the process stopped between proc.Process and the recording of its outcome
C12_Witness ==
    /\ lastOp = OpRec("recoverStale", 0, Ok, 1)
    /\ \E i \in DOMAIN jobs :
          /\ jobs[i].status = StatusPending
          /\ jobs[i].error = RecoveredMarker
          /\ jobs[i].attempts = 1
          /\ execs[i] = 1

(***************************************************************************)
(* Properties of the processor package                                     *)
(***************************************************************************)
\* C13: every Match call returns the earliest registered processor among those
\* that match the URL, returns none exactly when no registered processor
\* matches (the empty registry included), and leaves the registry as it is;
\* Register only appends.
C13_MatchStep ==
    (matchRet' # matchRet) =>
        LET url == matchRet'.url
            idx == matchRet'.idx
            matching == {k \in 1..Len(processors) : ProcessorMatch(processors[k], url)}
        IN  /\ processors' = processors
            /\ idx = 0 <=> matching = {}
            /\ idx # 0 => (idx \in matching /\ \A k \in matching : idx <= k)

C13_RegisterStep ==
    (processors' # processors) =>
        /\ Len(processors') = Len(processors) + 1
        /\ SubSeq(processors', 1, Len(processors)) = processors

C13_MatchReturnsEarliestRegistered == [][C13_MatchStep /\ C13_RegisterStep]_vars

\* two different processors match the URL and the first registered one is returned
C13_Witness ==
    /\ Len(processors) = 2
    /\ processors[1].name # processors[2].name
    /\ matchRet.called
    /\ ProcessorMatch(processors[1], matchRet.url)
    /\ ProcessorMatch(processors[2], matchRet.url)
    /\ matchRet.idx = 1

\* C14: while an isolated execution runs and after it returned, every file
\* that was in the target directory when it began is still there with the
\* content it had; an entry whose name exists in the target is skipped without
\* an error, so the execution can still return nil, and the produced file goes
\* away with the temp directory.
C14_ExistingKept ==
    ipc # "idle" =>
        \A f \in DOMAIN startDir :
            f \in DOMAIN targetDir /\ targetDir[f] = startDir[f]

C14_SkipStep ==
    (ipc = "move" /\ entries # <<>> /\ Head(entries) \in DOMAIN targetDir) =>
        /\ targetDir' = targetDir
        /\ entries' = Tail(entries)
        /\ ipc' = "move"
        /\ iret' = iret

C14_ReturnStep ==
    (ipc # "returned" /\ ipc' = "returned") => ~tempDir'.exists

C16_CommandFailed == ipc = "returned" /\ produced.err # ""

C16_FailedCommandLeavesTarget ==
    C16_CommandFailed =>
        /\ iret.kind = "command failed"
        /\ iret.err = produced.err
        /\ iret.output = produced.output
        /\ targetDir = startDir

C16_Witness ==
    /\ C16_CommandFailed
    /\ produced.err = "exit status 1"
    /\ produced.files # <<>>
    /\ produced.output \in CommandOutputs
    /\ iret.output = produced.output
    /\ targetDir = startDir
    /\ targetDir # <<>>

\* C17: every file of the target directory has a complete content at every
\* moment: what it held before, or all of what the command produced.
C17_NoPartialFileVisible ==
    \A f \in DOMAIN targetDir : targetDir[f] \in {OldData, NewData}

(***************************************************************************)
(* Polling order: the worker and direct queries over a table whose rows    *)
(* carry any creation times, without faults                                *)
(***************************************************************************)
Clock == 1..MaxClock
Limits == 0..MaxOrderJobs

QueryRec(limit, r) == [op |-> "query", id |-> 0, res |-> Ok, n |-> limit, arg |-> r]

\* JobService.Submit where time.Now() returns now
SubmitAt(raw, now) == SubmitJobAt(raw, now, FALSE, MaxOrderJobs)

\* JobService.GetPending(ctx, limit): the query on its own
GetPending(limit) ==
    /\ phase = "running"
    /\ \E r \in FindPending(jobs, limit) : SysApply(jobs, QueryRec(limit, r))
    /\ UNCHANGED <<procVars, maxRetries, phase, wpc, batch, cur, outcome, cancelled,
                   faults, execs, fails>>

NextOrder ==
    \/ Startup(FALSE)
    \/ \E raw \in CrashURLs, now \in Clock : SubmitAt(raw, now)
    \/ \E limit \in Limits : GetPending(limit)
    \/ WTick(FALSE)
    \/ WLoop
    \/ WBegin(FALSE)
    \/ WRefresh(FALSE)
    \/ \E out \in {ProcessOk} \cup ProcessErrs : WExec(out)
    \/ WRecord(FALSE)

SpecOrder == InitSys /\ [][NextOrder]_vars

\* r holds only pending rows of js, at most limit of them, oldest first, and
\* no pending row left out is older than a row of r
C18_OldestPending(js, r, limit) ==
    /\ Len(r) <= limit
    /\ \A k \in DOMAIN r : r[k].id \in DOMAIN js /\ r[k] = Snapshot(js, r[k].id)
    /\ \A k \in DOMAIN r : js[r[k].id].status = StatusPending
    /\ \A a, b \in DOMAIN r : a < b => (r[a].id # r[b].id /\ r[a].created_at <= r[b].created_at)
    /\ \A i \in DOMAIN js, k \in DOMAIN r :
           (js[i].status = StatusPending /\ js[i].created_at < r[k].created_at)
               => \E m \in DOMAIN r : r[m].id = i

C18_QueryStep ==
    /\ (lastOp'.op = "query") => C18_OldestPending(jobs, lastOp'.arg, lastOp'.n)
    /\ (lastOp'.op = "findPending" /\ lastOp'.res = Ok)
           => C18_OldestPending(jobs, batch', PollLimit)

C18_InProcessing == wpc \in {"process", "claimed", "exec", "record"}

\* the jobs of the cycle are handled one at a time, and every job still waiting
\* in the batch was created no earlier than the one being handled
C18_OneAtATimeOldestFirst ==
    /\ C18_InProcessing => \A k \in DOMAIN batch :
           batch[k].id # cur.id /\ cur.created_at <= batch[k].created_at
    /\ \A a, b \in DOMAIN batch : a < b => batch[a].created_at <= batch[b].created_at

\* C18: FindPending(limit) returns only pending jobs, at most limit of them,
\* ordered by creation time oldest first, and the worker processes the jobs of
\* one cycle in that order: of two fetched jobs the one created first is
\* finished before the other is begun.
C18_PendingOldestFirst == [][C18_QueryStep]_vars /\ []C18_OneAtATimeOldestFirst

\* the job with the larger id but the smaller creation time is being executed
\* while the other job of the same batch waits
C18_Witness ==
    /\ wpc = "exec"
    /\ batch # <<>>
    /\ cur.id > batch[1].id
    /\ cur.created_at < batch[1].created_at

\* a query with a limit below the number of pending rows has answered
C18_WitnessLimit ==
    /\ lastOp.op = "query"
    /\ Len(lastOp.arg) = lastOp.n
    /\ lastOp.n > 0
    /\ Cardinality({i \in DOMAIN jobs : jobs[i].status = StatusPending}) > lastOp.n

(***************************************************************************)
(* Cancellation of a running worker: Run in its goroutine, jobs submitted, *)
(* the context cancelled once; the process is not ended from outside       *)
(***************************************************************************)
NextCancel ==
    \/ Startup(FALSE)
    \/ \E raw \in CrashURLs : Submit(raw, FALSE)
    \/ Cancel
    \/ WTick(FALSE)
    \/ WStop
    \/ WLoop
    \/ WBegin(FALSE)
    \/ WRefresh(FALSE)
    \/ \E out \in {ProcessOk} \cup ProcessErrs : WExec(out)
    \/ WRecord(FALSE)

\* the goroutine keeps running; ctx.Done() is ready at every select once the
\* context is cancelled while the ticker is ready once per interval, so the
\* select takes the Done case in the end
SpecCancel ==
    /\ InitSys
    /\ [][NextCancel]_vars
    /\ WF_vars(WorkerStepQuiet)
    /\ WF_vars(WStop)
    /\ WF_vars(Startup(FALSE))

\* after the cancellation no claim succeeds, no job of the batch is begun and
\* no batch is fetched
C19_NoFurtherJob ==
    cancelled =>
        /\ ~(lastOp'.op = "claim" /\ lastOp'.res = Ok)
        /\ \A i \in DOMAIN jobs : jobs[i].status # StatusProcessing
               => jobs'[i].status # StatusProcessing
        /\ wpc' = "process" => wpc = "process"
        /\ batch' \in {batch, <<>>}

C19_RunReturns == cancelled ~> (wpc = "stopped")

\* C19: once the cancellation signal is raised the worker claims no further
\* job, it stops before the next job of the cycle and before the next cycle,
\* and Run returns once the job in flight, if any, has returned.
C19_StopsOnCancel == [][C19_NoFurtherJob]_vars /\ C19_RunReturns

(***************************************************************************)
(* Repository.Create driven on its own: several callers, each call in      *)
(* three steps (time.Now(), the INSERT, LastInsertId and the return), with *)
(* claims of the rows in between                                           *)
(***************************************************************************)
NoCall == [pc |-> "begun", url |-> <<>>, now |-> 0, id |-> 0, ret |-> NoJob, err |-> Ok]

\* Repository.Create: now := time.Now()
CreateBegin(url) ==
    /\ Len(calls) < MaxCalls
    /\ calls' = Append(calls, [NoCall EXCEPT !.url = url, !.now = Len(calls) + 1])
    /\ Apply(jobs, OpRec("none", 0, Ok, 0))
    /\ UNCHANGED <<sysVars, registryVars, isoVars, webVars, cmdVars>>

\* Repository.Create: the INSERT; result holds the id of the new row
CreateExec(c, fault) ==
    /\ c \in DOMAIN calls
    /\ calls[c].pc = "begun"
    /\ IF fault
       THEN /\ Apply(jobs, OpRec("create", 0, ErrStorage, 0))
            /\ calls' = [calls EXCEPT ![c].pc = "returned", ![c].err = ErrStorage]
       ELSE /\ Apply(Create(jobs, calls[c].url, calls[c].now),
                     OpRec("create", NextId(jobs), Ok, 1))
            /\ calls' = [calls EXCEPT ![c].pc = "inserted", ![c].id = NextId(jobs)]
    /\ UNCHANGED <<sysVars, registryVars, isoVars, webVars, cmdVars>>

\* Repository.Create: result.LastInsertId() and the returned Job literal
CreateReturn(c) ==
    /\ c \in DOMAIN calls
    /\ calls[c].pc = "inserted"
    /\ calls' = [calls EXCEPT ![c].pc = "returned",
                              ![c].ret = [id |-> calls[c].id, url |-> calls[c].url,
                                          status |-> StatusPending, attempts |-> 0,
                                          error |-> "", created_at |-> calls[c].now]]
    /\ Apply(jobs, OpRec("none", 0, Ok, 0))
    /\ UNCHANGED <<sysVars, registryVars, isoVars, webVars, cmdVars>>

\* another connection claims a row
CreateClaim(id) ==
    /\ StoreClaim(id, FALSE)
    /\ id \in DOMAIN jobs

NextCreate ==
    \/ \E url \in StoreURLs : CreateBegin(url)
    \/ \E c \in 1..MaxCalls, fault \in BOOLEAN : CreateExec(c, fault)
    \/ \E c \in 1..MaxCalls : CreateReturn(c)
    \/ \E id \in 1..MaxCalls : CreateClaim(id)

SpecCreate == InitStore /\ [][NextCreate]_vars

\* the INSERT adds one row, pending with attempts 0 and no error, under an id
\* above every id of the table, and leaves the other rows as they were
C20_InsertStep ==
    (lastOp'.op = "create" /\ lastOp'.res = Ok) =>
        LET id == lastOp'.id
        IN  /\ id \notin DOMAIN jobs
            /\ \A i \in DOMAIN jobs : i < id
            /\ DOMAIN jobs' = DOMAIN jobs \cup {id}
            /\ \A i \in DOMAIN jobs : jobs'[i] = jobs[i]
            /\ id \in DOMAIN jobs'
            /\ jobs'[id].status = StatusPending
            /\ jobs'[id].attempts = 0
            /\ jobs'[id].error = ""

C20_HasId(c) == calls[c].pc = "inserted" \/ (calls[c].pc = "returned" /\ calls[c].err = Ok)

\* what the calls returned: a pending job with attempts 0 and no error whose id
\* is the id of the row the call inserted, no two calls the same id
C20_Returned ==
    /\ \A c \in DOMAIN calls : (calls[c].pc = "returned" /\ calls[c].err = Ok) =>
           /\ calls[c].ret.status = StatusPending
           /\ calls[c].ret.attempts = 0
           /\ calls[c].ret.error = ""
           /\ calls[c].ret.id \in DOMAIN jobs
           /\ jobs[calls[c].ret.id].url = calls[c].url
           /\ jobs[calls[c].ret.id].created_at = calls[c].now
    /\ \A c, d \in DOMAIN calls :
           (c # d /\ C20_HasId(c) /\ C20_HasId(d)) => calls[c].id # calls[d].id

\* C20: Create returns a job with status pending, attempts 0 and empty error,
\* under an id different from every existing id and greater than the id of
\* every job created before it, also when several calls are in flight at once.
C20_CreateFreshIncreasingId == [][C20_InsertStep]_vars /\ []C20_Returned

\* two calls were in flight together, the one begun later inserted first, both
\* returned, and the row of one was claimed before its call returned
C20_Witness ==
    /\ Len(calls) >= 2
    /\ calls[1].pc = "returned" /\ calls[1].err = Ok
    /\ calls[2].pc = "returned" /\ calls[2].err = Ok
    /\ calls[2].ret.id < calls[1].ret.id
    /\ jobs[calls[1].ret.id].status = StatusProcessing

\* the Retry call returned nil for a row that was in processing
C21_RetryOfProcessing ==
    /\ lastOp'.op = "retry"
    /\ lastOp'.res = Ok
    /\ lastOp'.id \in DOMAIN jobs
    /\ jobs[lastOp'.id].status = StatusProcessing

C21_RetryStep ==
    C21_RetryOfProcessing =>
        /\ DOMAIN jobs' = DOMAIN jobs
        /\ \E reason \in StoreReasons :
               jobs'[lastOp'.id] = [jobs[lastOp'.id] EXCEPT !.status = StatusPending,
                                                            !.error = reason]
        /\ jobs'[lastOp'.id].attempts = jobs[lastOp'.id].attempts
        /\ \A i \in DOMAIN jobs : i # lastOp'.id => jobs'[i] = jobs[i]

\* the Claim that follows the Retry of the row, when the database answers
C21_ClaimAfterRetryStep ==
    (/\ lastOp.op = "retry" /\ lastOp.res = Ok /\ lastOp.id \in DOMAIN jobs
     /\ lastOp'.op = "claim" /\ lastOp'.id = lastOp.id /\ lastOp'.res # ErrStorage) =>
        /\ lastOp'.res = Ok
        /\ jobs'[lastOp.id].status = StatusProcessing
        /\ jobs'[lastOp.id].attempts = jobs[lastOp.id].attempts + 1

\* C21: Retry(id, reason) on a processing job sets status pending and error =
\* reason and leaves attempts unchanged; the job can then be claimed again, and
\* that claim raises attempts by exactly 1 over the value of the first claim.
C21_RetryReturnsToPool == [][C21_RetryStep /\ C21_ClaimAfterRetryStep]_vars

\* a job was claimed, retried and claimed again: attempts 2, the reason of the
\* retry still in its row
C21_Witness ==
    \E id \in DOMAIN jobs :
        /\ lastOp = OpRec("claim", id, Ok, 1)
        /\ jobs[id].status = StatusProcessing
        /\ jobs[id].attempts = 2
        /\ jobs[id].error \in StoreReasons

(***************************************************************************)
(* The webhook listener: Server.handleWebhook with Server.verifySignature. *)
(* Time is counted in minutes.  An X-Timestamp header is absent, a string  *)
(* time.Parse rejects, or an RFC3339 string for minute t; a request body   *)
(* is a JSON object with a url member or a text that is not JSON.  SHA-256 *)
(* is taken to be free of collisions: a digest is the payload it was       *)
(* computed from.                                                          *)
(***************************************************************************)
maxTimestampSkew == 5

Times == 0..MaxTime

Secrets == {"s", "t"}

TimestampHeaders ==
    {NoTimestamp, [kind |-> "garbage", t |-> 0]} \cup {[kind |-> "rfc3339", t |-> t] : t \in Times}

Bodies ==
    {NoBody, [json |-> TRUE, url |-> <<>>], [json |-> TRUE, url |-> <<"a">>],
     [json |-> TRUE, url |-> <<"b", ":", "/">>]}

\* fmt.Sprintf("%s\n%s\n%s", timestamp, string(body), s.secret)
Payload(timestamp, body, key) == <<timestamp, body, key>>

\* hex.EncodeToString of sha256.Sum256
Sum256Hex(payload) == [kind |-> "hex", of |-> payload]

OtherTimestamp(h) == [kind |-> "rfc3339", t |-> IF h.t = 0 THEN 1 ELSE h.t - 1]

OtherBody(b) == IF b = NoBody THEN [json |-> TRUE, url |-> <<>>] ELSE NoBody

\* the X-Signature values sent with a timestamp and a body: none, a string that
\* is no digest, and the digests of this and of other timestamps, bodies, keys
SignatureHeaders(h, b) ==
    {NoSignature, [kind |-> "garbage", of |-> Payload(NoTimestamp, NoBody, "")]}
    \cup {Sum256Hex(Payload(h2, b2, k)) :
              h2 \in {h, OtherTimestamp(h)}, b2 \in {b, OtherBody(b)}, k \in Secrets}

RequestsWith(h, b, now, readOk) ==
    {[timestamp |-> h, signature |-> g, body |-> b, now |-> now, readOk |-> readOk,
      sent |-> TRUE] : g \in SignatureHeaders(h, b)}

Requests(now, readOk) ==
    UNION {RequestsWith(h, b, now, readOk) : h \in TimestampHeaders, b \in Bodies}

Skew(now, t) == IF now < t THEN t - now ELSE now - t

VerifySkipsSignature(req, key) ==
    IF req.timestamp.kind = "none" THEN "missing X-Timestamp header"
    ELSE IF req.timestamp.kind # "rfc3339" THEN "invalid X-Timestamp"
    ELSE IF Skew(req.now, req.timestamp.t) > maxTimestampSkew THEN "X-Timestamp too far"
    ELSE IF req.signature.kind = "none" THEN "missing X-Signature header"
    ELSE ""

\* Server.verifySignature: the text of the error, "" for nil
verifySignature(req, key) ==
    IF req.timestamp.kind = "none" THEN "missing X-Timestamp header"
    ELSE IF req.timestamp.kind # "rfc3339" THEN "invalid X-Timestamp"
    ELSE IF Skew(req.now, req.timestamp.t) > maxTimestampSkew THEN "X-Timestamp too far"
    ELSE IF req.signature.kind = "none" THEN "missing X-Signature header"
    ELSE IF req.signature # Sum256Hex(Payload(req.timestamp, req.body, key))
         THEN "invalid signature"
    ELSE ""

Answer(status, id) ==
    /\ webResp' = [status |-> status, id |-> id]
    /\ UNCHANGED <<secret, sysVars, registryVars, isoVars, calls, cmdVars>>

\* net/http hands a request for POST /webhook to the handler; the server
\* clock and the outcome of reading the body are fixed with it
Request(req) ==
    /\ webReq = NoRequest
    /\ webReq' = req
    /\ Apply(jobs, OpRec("none", 0, Ok, 0))
    /\ UNCHANGED <<secret, webResp, sysVars, registryVars, isoVars, calls, cmdVars>>

\* Server.handleWebhook, with JobService.Submit and Repository.Create
handleWebhook(req, fault) ==
    /\ webReq = req
    /\ req.sent
    /\ webResp = NoResponse
    /\ UNCHANGED webReq
    /\ IF ~req.readOk
       THEN Apply(jobs, OpRec("none", 0, Ok, 0)) /\ Answer(400, 0)
       ELSE IF secret # "" /\ verifySignature(req, secret) # ""
       THEN Apply(jobs, OpRec("none", 0, Ok, 0)) /\ Answer(401, 0)
       ELSE IF ~req.body.json \/ req.body.url = <<>>
       THEN Apply(jobs, OpRec("none", 0, Ok, 0)) /\ Answer(400, 0)
       ELSE IF ~ParseRequestURI(req.body.url)
       THEN Apply(jobs, SubmitRec(req.body.url, 0, ErrInvalidURL)) /\ Answer(400, 0)
       ELSE /\ Len(jobs) < MaxWebJobs
            /\ IF fault
               THEN Apply(jobs, SubmitRec(req.body.url, 0, ErrStorage)) /\ Answer(500, 0)
               ELSE /\ Apply(Create(jobs, req.body.url, InOrderNow(jobs)),
                             SubmitRec(req.body.url, NextId(jobs), Ok))
                    /\ Answer(201, NextId(jobs))

InitWebhook ==
    /\ jobs = <<>>
    /\ lastOp = OpRec("none", 0, Ok, 0)
    /\ claimWins = <<>>
    /\ maxRetries = DefaultMaxRetries
    /\ phase = "running"
    /\ wpc = "wait"
    /\ batch = <<>>
    /\ cur = NoJob
    /\ outcome = ""
    /\ cancelled = FALSE
    /\ faults = 0
    /\ execs = <<>>
    /\ fails = <<>>
    /\ hist = <<>>
    /\ InitRegistryVars
    /\ targetDir = <<>>
    /\ tempDir = NoDir
    /\ entries = <<>>
    /\ ipc = "idle"
    /\ iret = NoReturn
    /\ startDir = <<>>
    /\ renameErr = ""
    /\ produced = NoCommand
    /\ runs = 0
    /\ calls = <<>>
    /\ secret \in {"", "s"}
    /\ webReq = NoRequest
    /\ webResp = NoResponse
    /\ InitCmdVars

\* the answer is on the wire and the exchange is over
Respond ==
    /\ webResp # NoResponse
    /\ webReq' = NoRequest
    /\ webResp' = NoResponse
    /\ Apply(jobs, OpRec("none", 0, Ok, 0))
    /\ UNCHANGED <<secret, sysVars, registryVars, isoVars, calls, cmdVars>>

NextWebhook ==
    \/ \E now \in {0, MaxTime}, readOk \in BOOLEAN :
           \E req \in Requests(now, readOk) : Request(req)
    \/ \E fault \in BOOLEAN : handleWebhook(webReq, fault)
    \/ Respond

SpecWebhook == InitWebhook /\ [][NextWebhook]_vars

\* the request carries an X-Timestamp that parses and lies within 5 minutes of
\* the server's clock and an X-Signature equal to the digest of its timestamp,
\* its body and the configured secret
C22_Signed(req) ==
    /\ req.timestamp.kind = "rfc3339"
    /\ Skew(req.now, req.timestamp.t) <= 5
    /\ req.signature = Sum256Hex(Payload(req.timestamp, req.body, secret))

C22_Handled == webResp = NoResponse /\ webResp' # NoResponse

C22_NoJobCreated == jobs' = jobs /\ webResp'.status # 201

\* with a secret, Submit is reached only by signed requests
C22_OnlySignedReachSubmit ==
    (C22_Handled /\ secret # "" /\ lastOp'.op = "submit") => C22_Signed(webReq)

\* without a secret no request is answered 401, and whether Submit is reached
\* depends on the body alone
C22_NoSecretNoVerification ==
    (C22_Handled /\ secret = "") =>
        /\ webResp'.status # 401
        /\ (webReq.readOk /\ webReq.body.json /\ webReq.body.url # <<>>)
               => lastOp'.op = "submit"

C22_Unsigned401Step ==
    (C22_Handled /\ secret # "" /\ ~C22_Signed(webReq)) =>
        webResp'.status = 401 /\ C22_NoJobCreated

C22_UnsignedRejectedStep ==
    (C22_Handled /\ secret # "" /\ ~C22_Signed(webReq)) =>
        /\ webResp'.status = (IF webReq.readOk THEN 401 ELSE 400)
        /\ C22_NoJobCreated

\* C22 as stated: with a secret configured a request reaches Submit only if it
\* carries a valid X-Timestamp and the matching X-Signature, every other
\* request is answered 401 and creates no job; without a secret nothing is
\* verified.
C22_EveryOther401 ==
    [][C22_OnlySignedReachSubmit /\ C22_Unsigned401Step /\ C22_NoSecretNoVerification]_vars

\* C22, amended: as above, but a request whose body could not be read is
\* answered 400 whatever its headers are.
C22_SignedOrRejected ==
    [][C22_OnlySignedReachSubmit /\ C22_UnsignedRejectedStep /\ C22_NoSecretNoVerification]_vars

\* a request signed with the configured secret, its timestamp exactly 5 minutes
\* off the server's clock, was answered 201 with a new job
C22_Witness ==
    /\ secret # ""
    /\ webReq.sent
    /\ C22_Signed(webReq)
    /\ Skew(webReq.now, webReq.timestamp.t) = 5
    /\ webResp.status = 201
    /\ webResp.id \in DOMAIN jobs

\* a service call of processJob returned a storage error in this step
C23_StorageErrorInProcessJob ==
    /\ wpc \in {"process", "claimed", "record"}
    /\ lastOp'.op \in {"claim", "get", "complete", "retry", "fail"}
    /\ lastOp'.res = ErrStorage

\* C23: a storage error returned by a service call inside processJob (the
\* claim, the re-fetch after the claim, the recording of the outcome) never
\* stops or crashes the worker loop: the process keeps running and the worker
\* is back in the loop of poll, ready for the next job and for later cycles.
C23_StorageErrorKeepsLoop ==
    [][C23_StorageErrorInProcessJob => (phase' = "running" /\ wpc' = "loop")]_vars

(***************************************************************************)
(* The worker with storage errors: the process is neither stopped nor      *)
(* killed from outside, the ticker keeps firing, and calls of the store    *)
(* may fail                                                                *)
(***************************************************************************)
NextFaulty ==
    \/ Startup(FALSE)
    \/ \E raw \in CrashURLs : SubmitJob(raw, FALSE, MaxCrashJobs)
    \/ \E fault \in BOOLEAN : WTick(fault)
    \/ WLoop
    \/ \E fault \in BOOLEAN : WBegin(fault)
    \/ \E fault \in BOOLEAN : WRefresh(fault)
    \/ \E out \in {ProcessOk} \cup ProcessErrs : WExec(out)
    \/ \E fault \in BOOLEAN : WRecord(fault)

SpecFaulty ==
    /\ InitSys
    /\ [][NextFaulty]_vars
    /\ WF_vars(WorkerStepQuiet)
    /\ WF_vars(Startup(FALSE))

\* a state-transition call of processJob for job i has just returned a storage error
C24_StorageErrorFor(i) ==
    /\ lastOp.op \in {"claim", "get", "complete", "retry", "fail"}
    /\ lastOp.res = ErrStorage
    /\ lastOp.id = i

\* C24: after a storage error in a state-transition call inside the worker
\* loop the affected job is processed again by a later poll cycle: the worker
\* enters processJob for it once more.
C24_ProcessedAgainAfterStorageError ==
    \A i \in 1..MaxCrashJobs :
        C24_StorageErrorFor(i) ~> (wpc = "process" /\ cur.id = i)

\* C25: in every reachable state, also after crash, restart and startup
\* recovery, every job's attempts is at most maxRetries: a job is never
\* claimed once it has been claimed maxRetries times.
C25_AttemptsAtMostMaxRetries ==
    \A i \in DOMAIN jobs : jobs[i].attempts <= maxRetries

\* processJob records a failed execution and the store accepts the write
C26_FailureRecorded ==
    /\ wpc = "record"
    /\ wpc' = "loop"
    /\ outcome \in ProcessErrs
    /\ lastOp'.res = Ok

C26_RecordStep ==
    C26_FailureRecorded =>
        /\ lastOp'.id = cur.id
        /\ jobs[cur.id].status = StatusProcessing
        /\ jobs'[cur.id].status \in {StatusPending, StatusFailed}
        /\ jobs'[cur.id].error = outcome

\* C26: when a handler's execution fails and the store accepts the following
\* write, the job does not stay in processing: the processJob call ends with
\* the job pending or failed and its error field equal to the text of the
\* execution's failure.
C26_FailedExecutionIsRecorded == [][C26_RecordStep]_vars

\* a job whose first execution failed is failed for good with the failure text
\* (maxRetries 1) after the worker recorded it
C26_Witness ==
    /\ maxRetries = 1
    /\ wpc = "loop"
    /\ lastOp.op = "fail"
    /\ lastOp.res = Ok
    /\ lastOp.id \in DOMAIN jobs
    /\ jobs[lastOp.id].status = StatusFailed
    /\ jobs[lastOp.id].attempts = 1
    /\ jobs[lastOp.id].error \in ProcessErrs
    /\ fails[lastOp.id] = 1

\* the transitions of the state-machine table
C27_TableTransitions ==
    {<<StatusPending, StatusProcessing>>, <<StatusProcessing, StatusCompleted>>,
     <<StatusProcessing, StatusPending>>, <<StatusProcessing, StatusFailed>>}

C27_Changes(allowed) ==
    \A i \in DOMAIN jobs :
        jobs'[i].status # jobs[i].status => <<jobs[i].status, jobs'[i].status>> \in allowed

C27_TableStep == C27_Changes(C27_TableTransitions)

C27_TableOrUnmatchedStep ==
    /\ C27_Changes(C27_TableTransitions \cup {<<StatusPending, StatusFailed>>})
    /\ \A i \in DOMAIN jobs :
           (jobs[i].status = StatusPending /\ jobs'[i].status = StatusFailed)
               => (Match(Registry, jobs[i].url) = 0 /\ jobs'[i].error = NoProcessorReason)

\* C27 as stated: every change of a job's status made by the system is one of
\* pending to processing, processing to completed, processing to pending,
\* processing to failed; a job becomes failed or completed only from processing.
C27_OnlyTableTransitions == [][C27_TableStep]_vars

\* C27, amended: as above, and pending to failed for a job whose URL matches no
\* processor, which is marked failed without having been claimed.
C27_OnlyTableOrUnmatchedTransitions == [][C27_TableOrUnmatchedStep]_vars

\* one job went round the table (claimed, retried, claimed, completed), another
\* one went from pending to failed directly
C27_Witness ==
    \E i, k \in DOMAIN jobs :
        /\ hist[i] = <<StatusPending, StatusProcessing, StatusPending,
                       StatusProcessing, StatusCompleted>>
        /\ hist[k] = <<StatusPending, StatusFailed>>
        /\ jobs[k].attempts = 0

(***************************************************************************)
(* The system without storage errors: no call of the store fails and the   *)
(* context is not cancelled, but the process may be killed and restarted   *)
(***************************************************************************)
NextKill ==
    \/ Startup(FALSE)
    \/ \E raw \in SysURLs : Submit(raw, FALSE)
    \/ Die
    \/ WTick(FALSE)
    \/ WLoop
    \/ WBegin(FALSE)
    \/ WRefresh(FALSE)
    \/ \E out \in {ProcessOk} \cup ProcessErrs : WExec(out)
    \/ WRecord(FALSE)

SpecKill == InitSys /\ [][NextKill]_vars

C28_Processing == {i \in DOMAIN jobs : jobs[i].status = StatusProcessing}

\* the worker is inside processJob for job i, past the claim
C28_InsideProcessJob(i) == wpc \in {"claimed", "exec", "record"} /\ cur.id = i

C29_Ids(b) == {b[k].id : k \in DOMAIN b}

C29_Pending == {i \in DOMAIN jobs : jobs[i].status = StatusPending}

\* a cycle starts: the batch is a snapshot of at most 10 jobs pending now
C29_TickStep ==
    (lastOp'.op = "findPending" /\ lastOp'.res = Ok) =>
        /\ wpc = "wait"
        /\ batch = <<>>
        /\ Len(batch') <= 10
        /\ Cardinality(C29_Ids(batch')) = Len(batch')
        /\ C29_Ids(batch') \subseteq C29_Pending
        /\ Cardinality(C29_Pending) <= 10 => C29_Ids(batch') = C29_Pending
        /\ \A k \in DOMAIN batch' : batch'[k] = Snapshot(jobs, batch'[k].id)

\* within a cycle the batch only loses jobs: its head when the worker begins
\* that job, or all of it when the cycle is given up
C29_BatchStep ==
    batch' # batch =>
        \/ lastOp'.op = "findPending" /\ lastOp'.res = Ok
        \/ batch' = <<>>
        \/ batch # <<>> /\ batch' = Tail(batch) /\ cur' = Head(batch)

\* the worker begins a job only by taking the head of the batch
C29_BeginStep ==
    (wpc' = "process" /\ wpc # "process") =>
        /\ wpc = "loop"
        /\ batch # <<>>
        /\ cur' = Head(batch)
        /\ batch' = Tail(batch)

\* no job is twice in the batch, and the job being handled is not in it
C29_NoSecondTurn ==
    /\ Cardinality(C29_Ids(batch)) = Len(batch)
    /\ wpc \in {"process", "claimed", "exec", "record"} => cur.id \notin C29_Ids(batch)

\* C29: one poll cycle works on the snapshot of at most 10 pending jobs taken
\* at its start: a job submitted while the cycle runs is not processed in that
\* cycle, and a job returned to pending during the cycle is not executed a
\* second time within it.
C29_CycleWorksOnSnapshot ==
    [][C29_TickStep /\ C29_BatchStep /\ C29_BeginStep]_vars /\ []C29_NoSecondTurn

\* the cycle has come to its end with two pending jobs it does not take up: one
\* it executed and returned to pending, one submitted while it ran
C29_Witness ==
    /\ faults = 0
    /\ wpc = "loop"
    /\ batch = <<>>
    /\ lastOp.op = "retry" /\ lastOp.res = Ok
    /\ \E i, k \in DOMAIN jobs :
           /\ i = lastOp.id
           /\ jobs[i].status = StatusPending /\ execs[i] = 1
           /\ jobs[k].status = StatusPending /\ execs[k] = 0 /\ jobs[k].attempts = 0
           /\ Match(Registry, jobs[k].url) # 0

\* ---------------------------------------------------------------------------
\* Termination of jobs: the worker keeps polling, executions return, the store
\* answers every call, and the process is killed only finitely often.
\* ---------------------------------------------------------------------------

\* A backlog one larger than the poll limit (worker.go:48), so that one pending
\* job is left out of the first snapshot.
BacklogJobs == PollLimit + 1

\* The table after BacklogJobs submissions of a URL a processor matches, made
\* before the worker's first poll (service.go Submit, repository.go Create).
InitBacklog ==
    /\ jobs = [i \in 1..BacklogJobs |-> NewJob(<<"b", ":", "/">>, i)]
    /\ lastOp = OpRec("none", 0, Ok, 0)
    /\ claimWins = [i \in 1..BacklogJobs |-> 0]
    /\ maxRetries \in 1..MaxRetriesBound
    /\ phase = "startup"
    /\ wpc = "wait"
    /\ batch = <<>>
    /\ cur = NoJob
    /\ outcome = ""
    /\ cancelled = FALSE
    /\ faults = 0
    /\ execs = [i \in 1..BacklogJobs |-> 0]
    /\ fails = [i \in 1..BacklogJobs |-> 0]
    /\ hist = [i \in 1..BacklogJobs |-> <<StatusPending>>]
    /\ InitProc

\* The worker on a backlog: every execution fails, which is the case in which
\* the older jobs return to the pending pool and are fetched again before the
\* job that was left out; one more job may be submitted at any time.
NextBacklog ==
    \/ Startup(FALSE)
    \/ \E raw \in CrashURLs : SubmitJob(raw, FALSE, BacklogJobs + 1)
    \/ WTick(FALSE)
    \/ WLoop
    \/ WBegin(FALSE)
    \/ WRefresh(FALSE)
    \/ \E out \in ProcessErrs : WExec(out)
    \/ WRecord(FALSE)

\* Either a small table on which executions succeed or fail freely and the
\* process may be killed and restarted, or the backlog.
NextFair ==
    \/ Len(jobs) < BacklogJobs /\ NextKill
    \/ Len(jobs) >= BacklogJobs /\ NextBacklog

SpecFair ==
    /\ (InitSys \/ InitBacklog)
    /\ [][NextFair]_vars
    /\ WF_vars(WorkerStepQuiet)
    /\ WF_vars(Startup(FALSE))

C30_Terminal(i) ==
    i \in DOMAIN jobs /\ jobs[i].status \in {StatusCompleted, StatusFailed}

C30_AllTerminal == \A i \in DOMAIN jobs : C30_Terminal(i)

C30_Fetched(b) == {b[k].id : k \in DOMAIN b}

\* A fetch leaves a pending job out of the snapshot only if every job it took
\* was created no later than that job: only the youngest wait for a later cycle.
C30_FetchStep ==
    (lastOp'.op = "findPending" /\ lastOp'.res = Ok) =>
        \A i \in DOMAIN jobs :
            (jobs[i].status = StatusPending /\ i \notin C30_Fetched(batch')) =>
                \A k \in C30_Fetched(batch') : jobs[k].created_at <= jobs[i].created_at

\* The backlog is worked off: the job the first snapshot left out and the job
\* submitted after it were both executed maxRetries times and are failed.
C30_Witness ==
    /\ Len(jobs) = BacklogJobs + 1
    /\ maxRetries >= 2
    /\ C30_AllTerminal
    /\ \A i \in DOMAIN jobs : execs[i] = maxRetries /\ jobs[i].status = StatusFailed

\* C30: when the worker keeps polling, every execution returns, no storage
\* error occurs and the process is killed only finitely often, every submitted
\* job eventually is completed or failed and stays so; a poll cycle postpones a
\* pending job only in favour of jobs created no later than it.
C30_EveryJobTerminates ==
    /\ <>[]C30_AllTerminal
    /\ [][C30_FetchStep]_vars

\* ---------------------------------------------------------------------------
\* Failed is terminal for the worker and for startup recovery.
\* ---------------------------------------------------------------------------

C31_InBatch(i, b) == \E k \in DOMAIN b : b[k].id = i

C31_FailedStep ==
    \A i \in DOMAIN jobs :
        jobs[i].status = StatusFailed =>
            /\ jobs'[i].status = StatusFailed
            /\ jobs'[i].attempts = jobs[i].attempts
            /\ jobs'[i].error = jobs[i].error
            /\ execs'[i] = execs[i]
            /\ (batch' # batch) => ~C31_InBatch(i, batch')
            /\ ~(wpc = "process" /\ wpc' = "claimed" /\ cur.id = i)

\* C31: once a job is failed, no step of the worker and no startup recovery
\* changes its status, attempts or error; it is not in any fetched batch, is
\* not claimed and is not executed again.
C31_FailedIsTerminal == [][C31_FailedStep]_vars

\* A job failed after using up its executions, next to a job that a startup
\* recovery returned to the pool and that a later cycle claimed again.
C31_Witness ==
    /\ Len(jobs) = 2
    /\ jobs[1].status = StatusFailed /\ execs[1] = maxRetries /\ jobs[1].attempts = maxRetries
    /\ jobs[2].status = StatusProcessing /\ jobs[2].error = RecoveredMarker
    /\ jobs[2].attempts = 2

\* ---------------------------------------------------------------------------
\* The error column: written by Retry, Fail and RecoverStale, each time with
\* the new text alone.
\* ---------------------------------------------------------------------------

\* the reasons the callers pass: the text of a failed execution (worker.go:87)
\* and a second text, so that the latest reason can differ from the one before
ErrorReasons == {"download error", "exit status 1"}

\* Create while the table is small
ErrorCreate(url) ==
    /\ Len(jobs) < MaxErrorJobs
    /\ StoreCreate(url, FALSE)

NextError ==
    \/ \E url \in StoreURLs : ErrorCreate(url)
    \/ \E id \in StoreIds : StoreGet(id, FALSE)
    \/ \E id \in StoreIds : StoreClaim(id, FALSE)
    \/ \E id \in StoreIds : StoreComplete(id, FALSE)
    \/ \E id \in StoreIds, reason \in ErrorReasons : StoreFail(id, reason, FALSE)
    \/ \E id \in StoreIds, reason \in ErrorReasons : StoreRetry(id, reason, FALSE)
    \/ StoreRecoverStale(FALSE)

SpecError == InitStore /\ [][NextError]_vars

\* the step calls Retry or Fail on job i with this reason
C32_Writes(i, reason) == StoreRetry(i, reason, FALSE) \/ StoreFail(i, reason, FALSE)

\* the step is a RecoverStale that resets job i
C32_Recovers(i) == StoreRecoverStale(FALSE) /\ jobs[i].status = StatusProcessing

C32_ErrorStep ==
    /\ \A i \in DOMAIN jobs :
          /\ \A reason \in ErrorReasons : C32_Writes(i, reason) => jobs'[i].error = reason
          /\ C32_Recovers(i) => jobs'[i].error = RecoveredMarker
          /\ (~C32_Recovers(i) /\ \A reason \in ErrorReasons : ~C32_Writes(i, reason)) =>
                 jobs'[i].error = jobs[i].error
    /\ \A i \in DOMAIN jobs' \ DOMAIN jobs : jobs'[i].error = ""

\* C32: the error of a job is the reason of the latest Retry or Fail on it, or
\* the recovery marker if a RecoverStale reset it since, and is empty before
\* any of these: each of the three writes the new text in place of the old one,
\* a new row has an empty error, and every other operation (Claim and Complete
\* among them) leaves the error as it is.
C32_ErrorIsLatestReason == [][C32_ErrorStep]_vars

\* A job whose error was written three times, last by a Fail whose reason
\* differs from the one before: it went through a retry, a recovery and a fail.
C32_Witness ==
    /\ lastOp.op = "fail" /\ lastOp.res = Ok /\ lastOp.id \in DOMAIN jobs
    /\ jobs[lastOp.id].error = "exit status 1"
    /\ jobs[lastOp.id].attempts = 2
    /\ jobs[lastOp.id].status = StatusFailed

\* ---------------------------------------------------------------------------
\* Rows are never removed, and url and created_at are written once.
\* ---------------------------------------------------------------------------

C33_KeepStep ==
    \A i \in DOMAIN jobs :
        /\ i \in DOMAIN jobs'
        /\ jobs'[i].url = jobs[i].url
        /\ jobs'[i].created_at = jobs[i].created_at
        /\ Get(jobs', i) = Ok

\* a new row carries the url that was submitted
C33_SubmitStep ==
    (DOMAIN jobs' # DOMAIN jobs) =>
        /\ lastOp'.op = "submit" /\ lastOp'.res = Ok
        /\ DOMAIN jobs' = DOMAIN jobs \cup {lastOp'.id}
        /\ jobs'[lastOp'.id].url = lastOp'.arg

\* the job that Get hands to the worker is the row of that id, url included
C33_GetStep ==
    (wpc = "claimed" /\ wpc' = "exec") =>
        /\ lastOp'.op = "get" /\ lastOp'.res = Ok
        /\ cur'.id = cur.id
        /\ cur'.url = jobs[cur.id].url
        /\ cur'.created_at = jobs[cur.id].created_at

\* C33: over any sequence of submissions, poll cycles, kills and restarts, a
\* job once created stays in the table and stays retrievable by Get, with the
\* url it was submitted with and the created_at it was given.
C33_UrlAndCreatedAtImmutable == [][C33_KeepStep /\ C33_SubmitStep /\ C33_GetStep]_vars

\* Two jobs with different urls; one of them was returned to the pool, claimed
\* a second time and has just been read back by Get.
C33_Witness ==
    /\ Len(jobs) = 2
    /\ jobs[1].url # jobs[2].url
    /\ jobs[1].created_at < jobs[2].created_at
    /\ wpc = "exec" /\ lastOp.op = "get" /\ lastOp.res = Ok
    /\ cur.url = jobs[cur.id].url /\ cur.attempts = 2

\* ---------------------------------------------------------------------------
\* Complete applied twice.
\* ---------------------------------------------------------------------------

C34_SameFields(a, b) ==
    /\ DOMAIN a = DOMAIN b
    /\ \A i \in DOMAIN a :
          /\ a[i].status = b[i].status
          /\ a[i].attempts = b[i].attempts
          /\ a[i].error = b[i].error

\* C34: Complete is idempotent: on every table the store can hold and for
\* every id, Complete(id) applied twice leaves the same status (completed for
\* an existing job), attempts and error in every row as Complete(id) applied
\* once.
C34_CompleteIdempotent ==
    \A id \in StoreIds :
        LET once == Complete(jobs, id)
            twice == Complete(once, id)
        IN  /\ C34_SameFields(twice, once)
            /\ id \in DOMAIN jobs =>
                   /\ once[id].status = StatusCompleted
                   /\ once[id].attempts = jobs[id].attempts
                   /\ once[id].error = jobs[id].error

\* Complete has just been applied to a job that was claimed twice and carries
\* the reason of a retry.
C34_Witness ==
    /\ lastOp.op = "complete" /\ lastOp.res = Ok /\ lastOp.n = 1
    /\ jobs[lastOp.id].status = StatusCompleted
    /\ jobs[lastOp.id].attempts = 2
    /\ jobs[lastOp.id].error # ""

\* ---------------------------------------------------------------------------
\* Operations on an id that no job has.
\* ---------------------------------------------------------------------------

\* the step is a call of one of these operations that the database answered
C35_Call(ops) == lastOp' # lastOp /\ lastOp'.op \in ops /\ lastOp'.res # ErrStorage

C35_AbsentIdStep ==
    /\ (C35_Call({"complete", "fail", "retry"}) /\ lastOp'.id \notin DOMAIN jobs) =>
           /\ lastOp'.res = Ok
           /\ jobs' = jobs
    /\ (C35_Call({"get", "claim"}) /\ lastOp'.id \notin DOMAIN jobs) =>
           /\ lastOp'.res = ErrJobNotFound
           /\ jobs' = jobs
    /\ C35_Call({"create", "complete", "fail", "retry", "recoverStale"}) =>
           lastOp'.res # ErrJobNotFound

\* C35: Complete, Fail and Retry called with an id that no job has return no
\* error and leave the table as it is, while Get and Claim on such an id return
\* ErrJobNotFound and leave the table as it is; no operation other than Get
\* and Claim ever returns ErrJobNotFound.
C35_OnlyGetAndClaimReportNotFound == [][C35_AbsentIdStep]_vars

\* Fail was called with an id that no job has, while another job was being
\* processed: it returned no error and matched no row.
C35_Witness ==
    /\ lastOp.op = "fail" /\ lastOp.res = Ok /\ lastOp.n = 0
    /\ lastOp.id \notin DOMAIN jobs
    /\ \E i \in DOMAIN jobs : jobs[i].status = StatusProcessing /\ jobs[i].error = ""

\* ---------------------------------------------------------------------------
\* Executions and claims.
\* ---------------------------------------------------------------------------

\* the worker's step is a Claim of the job in hand with this kind of result
C36_ClaimStep(ok) ==
    /\ wpc = "process"
    /\ lastOp'.op = "claim"
    /\ lastOp'.id = cur.id
    /\ (lastOp'.res = Ok) = ok

C36_ExecutionsWithinAttempts ==
    \A i \in DOMAIN jobs : execs[i] <= jobs[i].attempts

C36_ExecStep ==
    \* an execution is of the job in hand, which is processing, once
    /\ (\E i \in DOMAIN execs : execs'[i] # execs[i]) =>
           /\ wpc = "exec" /\ wpc' = "record"
           /\ jobs[cur.id].status = StatusProcessing
           /\ execs' = [execs EXCEPT ![cur.id] = @ + 1]
    \* the worker comes to the execution only through a successful claim of
    \* that job followed by reading it back
    /\ (wpc' = "exec" /\ wpc # "exec") => (wpc = "claimed" /\ cur'.id = cur.id)
    /\ (wpc' = "claimed" /\ wpc # "claimed") => C36_ClaimStep(TRUE)
    \* after the execution the worker leaves the job
    /\ (wpc = "record" /\ wpc' # "record") => wpc' \in {"loop", "wait"}

C36_FailedClaimStep ==
    C36_ClaimStep(FALSE) =>
        /\ wpc' = "loop"
        /\ jobs' = jobs
        /\ execs' = execs
        /\ ~C31_InBatch(cur.id, batch')

\* C36: the handler of a job is executed only after a successful claim of that
\* job and at most once per successful claim, so a job's executions never
\* exceed its attempts; when the claim fails the worker goes on to the next job
\* of the batch without executing or modifying the job.
C36_ExecutedOnlyWhenClaimed ==
    /\ []C36_ExecutionsWithinAttempts
    /\ [][C36_ExecStep /\ C36_FailedClaimStep]_vars

\* The first job was claimed and executed once; the claim of the second job
\* has just failed and the job is left pending, not executed.
C36_Witness ==
    /\ Len(jobs) = 2
    /\ execs[1] = 1 /\ jobs[1].attempts = 1
    /\ lastOp.op = "claim" /\ lastOp.id = 2 /\ lastOp.res # Ok
    /\ wpc = "loop"
    /\ jobs[2].status = StatusPending /\ jobs[2].attempts = 0 /\ execs[2] = 0

\* ---------------------------------------------------------------------------
\* What a successful isolated execution leaves in the target directory.
\* ---------------------------------------------------------------------------

C37_Succeeded == ipc = "returned" /\ iret = ReturnNil

\* the names of the files, not subdirectories, that the command produced
C37_ProducedFiles == {f \in DOMAIN produced.files : produced.files[f] # Subdirectory}

\* C37: after a successful isolated execution every top-level file (not a
\* directory) that the command produced under a name that was not in the
\* target directory is in the target with the produced content, no produced
\* subdirectory is in the target, and the target holds nothing else new.
C37_ProducedFilesMoved ==
    C37_Succeeded =>
        /\ \A f \in C37_ProducedFiles \ DOMAIN startDir :
              f \in DOMAIN targetDir /\ targetDir[f] = produced.files[f]
        /\ \A f \in DOMAIN produced.files \ C37_ProducedFiles :
              f \in DOMAIN targetDir => (f \in DOMAIN startDir /\ targetDir[f] = startDir[f])
        /\ DOMAIN targetDir = DOMAIN startDir \cup C37_ProducedFiles

\* The command produced a file and a subdirectory, neither name was in the
\* target: the file is there with its content, the subdirectory is not.
C37_Witness ==
    /\ C37_Succeeded
    /\ \E f \in C37_ProducedFiles \ DOMAIN startDir : targetDir[f] = NewData
    /\ \E d \in DOMAIN produced.files :
          /\ produced.files[d] = Subdirectory
          /\ d \notin DOMAIN startDir
          /\ d \notin DOMAIN targetDir

\* ---------------------------------------------------------------------------
\* The copy fallback of moveFiles.
\* ---------------------------------------------------------------------------

\* os.Rename has just failed in this step, for a reason other than source and
\* destination being on different devices
C38_RenameFailedOtherwise ==
    /\ ipc = "move"
    /\ renameErr' \in RenameErrs \ {ErrCrossDevice}

\* C38: the copy fallback is taken only when the rename failed because source
\* and destination are on different devices; when the rename fails for any
\* other reason nothing is written to the destination and moveFiles returns an
\* error.
C38_FallbackOnlyAcrossDevices ==
    [][C38_RenameFailedOtherwise =>
          /\ targetDir' = targetDir
          /\ ipc' = "returned"
          /\ iret'.kind # "nil"]_vars

(***************************************************************************)
(* CommandProcessor.Process driven directly: a processor is made with an   *)
(* argument template and then called with jobs, one after the other.  An   *)
(* argument is a sequence of characters.                                   *)
(***************************************************************************)
Placeholder == <<"{", "u", "r", "l", "}">>

\* strings.ReplaceAll with the first match only
RECURSIVE ReplaceFirst(_, _, _)
ReplaceFirst(s, old, new) ==
    IF s = <<>> THEN <<>>
    ELSE IF HasPrefix(s, old)
    THEN new \o SubSeq(s, Len(old) + 1, Len(s))
    ELSE <<Head(s)>> \o ReplaceFirst(Tail(s), old, new)

\* strings.ReplaceAll(s, old, new) for a non-empty old: the matches are taken
\* from the left, do not overlap, and what was put in is not scanned again
RECURSIVE ReplaceAll(_, _, _)
ReplaceAll(s, old, new) ==
    IF s = <<>> THEN <<>>
    ELSE IF HasPrefix(s, old)
    THEN new \o ReplaceAll(SubSeq(s, Len(old) + 1, Len(s)), old, new)
    ELSE <<Head(s)>> \o ReplaceAll(Tail(s), old, new)

\* An argument of a configuration is written piece by piece: a piece is one
\* character or the mark "URL"; Fill puts hole in the place of every mark.
PieceKinds == {"-", "{", "URL"}
Shapes == UNION {[1..n -> PieceKinds] : n \in 0..MaxPieces}

RECURSIVE Fill(_, _)
Fill(shape, hole) ==
    IF shape = <<>> THEN <<>>
    ELSE (IF Head(shape) = "URL" THEN hole ELSE <<Head(shape)>>) \o Fill(Tail(shape), hole)

\* the arguments a configuration may hold, the placeholder written out
TemplateArgs == {Fill(sh, Placeholder) : sh \in Shapes}
Templates == UNION {[1..n -> TemplateArgs] : n \in 0..MaxArgs}

\* the URLs of the jobs; the second one contains the placeholder's text
ProcessURLs == { <<"b", ":", "/">>, <<"a", ":", "{", "u", "r", "l", "}">> }

\* NewCommandProcessor: args: cfg.Args
NewCommandProcessor ==
    /\ ~invoked.called
    /\ pArgs = <<>>
    /\ \E cfgArgs \in Templates : pArgs' = cfgArgs
    /\ UNCHANGED <<jobs, lastOp, claimWins, sysVars, registryVars, isoVars, calls,
                   webVars, invoked>>

\* CommandProcessor.Process up to the point where the command is started with args
Process(url) ==
    /\ invoked' = [called |-> TRUE, url |-> url,
                   args |-> [i \in DOMAIN pArgs |-> ReplaceAll(pArgs[i], Placeholder, url)]]
    /\ UNCHANGED <<jobs, lastOp, claimWins, sysVars, registryVars, isoVars, calls,
                   webVars, pArgs>>

NextProcess ==
    \/ NewCommandProcessor
    \/ \E url \in ProcessURLs : Process(url)

SpecProcess == InitStore /\ [][NextProcess]_vars

\* the arguments of the last call are the template's, with the URL of that
\* call's job in the place of every placeholder and everything else as it is
C39_Substituted ==
    invoked.called =>
        /\ DOMAIN invoked.args = DOMAIN pArgs
        /\ \A i \in DOMAIN pArgs :
              \A sh \in Shapes :
                  pArgs[i] = Fill(sh, Placeholder) => invoked.args[i] = Fill(sh, invoked.url)

\* a call leaves the template as it is
C39_TemplateStep == invoked'.called => pArgs' = pArgs

\* C39: Process gives the command the template's arguments with the job's URL
\* in the place of every occurrence of {url} and everything else unchanged,
\* and does not modify the stored template; so over any sequence of calls the
\* command of each job gets that job's URL, never the URL of an earlier job.
C39_EveryPlaceholderGetsJobURL == [](C39_Substituted) /\ [][C39_TemplateStep]_vars

\* A template of two arguments, the first with the placeholder twice, the
\* second without it; the call with a job's URL gave the URL twice and left the
\* second argument and the template as they were.
C39_Witness ==
    /\ invoked.called
    /\ invoked.url = <<"b", ":", "/">>
    /\ pArgs = << Placeholder \o Placeholder, <<"-", "{">> >>
    /\ invoked.args = << invoked.url \o invoked.url, <<"-", "{">> >>

====
